---- MODULE Spec2Model ----
(***************************************************************************)
(* Model of the venator query subsystem: the filter lowering, the indexed  *)
(* filter plans, their search, and the event and span query iterators      *)
(* (venator-engine/src/filter.rs, models.rs).                               *)
(*                                                                         *)
(* Timestamps are NonZeroU64 in the program.  The model keeps the shape of *)
(* that domain (a smallest key 1, a largest key at which saturating_add    *)
(* sticks, and NonZeroU64::new(0) = None) at a reduced width MaxTimestamp. *)
(* Option<Timestamp> is encoded as 0 for None.  Strings that the program   *)
(* parses are sequences of one-character strings.                           *)
(***************************************************************************)
EXTENDS Integers, Sequences, FiniteSets, TLC

VARIABLES
    instances,  \* storage: InstanceKey -> Instance
    spans,      \* storage: SpanKey -> Span
    events,     \* storage: EventKey -> Event
    equery,     \* the EventQuery being served (NoQuery when none)
    eiter,      \* IndexedEventFilterIterator {filter, order, start_key, end_key}
    eout,       \* keys the event iterator has yielded so far
    epc,        \* "idle" | "iter" | "done" | "panic" | "hang"
    squery,     \* the SpanQuery being served (NoQuery when none)
    siter,      \* IndexedSpanFilterIterator {filter, order, curr_key, start_key, end_key}
    sout,       \* keys the span iterator has yielded so far
    spc,        \* "idle" | "iter" | "done" | "panic" | "hang"
    probe,      \* last direct call of a pure operation and its result
    storage,    \* FileStorage: the rows of its four tables, by primary key
    scall,      \* last call on the FileStorage and how it ended
    conn,       \* one ingress connection: its task's position and unread bytes
    calls,      \* the engine calls the connection's task has issued, in order
    live,       \* event subscriptions: the engine's entries, queues, forwarding tasks
    listener    \* the Ingress object, its listener thread and the status() reports

vars == <<instances, spans, events, equery, eiter, eout, epc,
          squery, siter, sout, spc, probe, storage, scall, conn, calls, live,
          listener>>

\* the state of the query subsystem, and the state of storage and ingress
queryVars == <<instances, spans, events, equery, eiter, eout, epc,
               squery, siter, sout, spc, probe>>
ioVars == <<storage, scall, conn, calls, live, listener>>

(***************************************************************************)
(* Bounds of the model.                                                    *)
(***************************************************************************)
MaxTimestamp == 4

(***************************************************************************)
(* models.rs: key types and levels.                                        *)
(***************************************************************************)
TimestampMIN == 1
TimestampMAX == MaxTimestamp
Timestamps == TimestampMIN..TimestampMAX
\* Option<Timestamp>::None: the one value NonZeroU64 excludes
None == TimestampMIN - 1

\* storage and ingress before anything has happened
EmptyStorage == [instances |-> <<>>, spans |-> <<>>, span_events |-> <<>>, events |-> <<>>]
NoCall == [op |-> "none"]
NoConn == [pc |-> "none"]
NoLive == [next_id |-> 0]
NoIngress == [state |-> "none"]
IoIdle ==
    /\ storage = EmptyStorage
    /\ scall = NoCall
    /\ conn = NoConn
    /\ live = NoLive
    /\ listener = NoIngress
    /\ calls = <<>>

Levels == 0..4
LevelTrace == 0
LevelDebug == 1
LevelInfo == 2
LevelWarn == 3
LevelError == 4

Orders == {"Asc", "Desc"}

\* NonZeroU64::saturating_add(1)
SaturatingAdd1(t) == IF t = TimestampMAX THEN TimestampMAX ELSE t + 1

\* Timestamp::new(t - 1): None (0) when t = 1; the callers unwrap it
NewPred(t) == t - 1

Min(a, b) == IF a <= b THEN a ELSE b
Max(a, b) == IF a >= b THEN a ELSE b

(***************************************************************************)
(* Text.  A string is a sequence of one-character strings.                 *)
(***************************************************************************)
Digits == <<"0", "1", "2", "3", "4", "5", "6", "7", "8", "9">>

IsDigit(c) == \E i \in 1..10 : Digits[i] = c
DigitValue(c) == (CHOOSE i \in 1..10 : Digits[i] = c) - 1

RECURSIVE DigitsValue(_, _)
DigitsValue(s, acc) ==
    IF s = <<>> THEN acc ELSE DigitsValue(Tail(s), acc * 10 + DigitValue(Head(s)))

\* str::parse::<u64>: an optional '+', then one or more decimal digits.
\* The result is [ok, val].  (The texts the model feeds it stay far below 2^64.)
ParseU64(s) ==
    LET body == IF s # <<>> /\ Head(s) = "+" THEN Tail(s) ELSE s
    IN  IF body # <<>> /\ \A i \in 1..Len(body) : IsDigit(body[i])
        THEN [ok |-> TRUE, val |-> DigitsValue(body, 0)]
        ELSE [ok |-> FALSE, val |-> 0]

\* str::split_once('-'): the text before and after the first '-'
SplitOnce(s) ==
    IF \E i \in 1..Len(s) : s[i] = "-"
    THEN LET i == CHOOSE j \in 1..Len(s) :
                      s[j] = "-" /\ \A k \in 1..(j - 1) : s[k] # "-"
         IN  [ok |-> TRUE, left |-> SubSeq(s, 1, i - 1), right |-> SubSeq(s, i + 1, Len(s))]
    ELSE [ok |-> FALSE, left |-> <<>>, right |-> <<>>]

parse_full_span_id(s) ==
    LET sp == SplitOnce(s)
        a == ParseU64(sp.left)
        b == ParseU64(sp.right)
    IN  IF sp.ok /\ a.ok /\ b.ok
        THEN [ok |-> TRUE, instance_id |-> a.val, span_id |-> b.val]
        ELSE [ok |-> FALSE, instance_id |-> 0, span_id |-> 0]

(***************************************************************************)
(* BoundSearch for [T]: lower_bound / upper_bound by binary search, as     *)
(* slice::binary_search_by does it with a comparator that never answers    *)
(* Equal: the result is the insertion point.                               *)
(***************************************************************************)
\* a comparator that treats upper_bound like lower_bound
CmpIsLess_strict(mode, current_item, item) == current_item < item

\* the comparator of lower_bound (Equal => Greater) and upper_bound (Equal => Less)
CmpIsLess(mode, current_item, item) ==
    IF mode = "lower" THEN current_item < item ELSE current_item <= item

RECURSIVE BinarySearchBy(_, _, _, _, _)
BinarySearchBy(s, item, mode, left, right) ==
    IF left >= right THEN left
    ELSE LET mid == left + ((right - left) \div 2)
         IN  IF CmpIsLess(mode, s[mid + 1], item)
             THEN BinarySearchBy(s, item, mode, mid + 1, right)
             ELSE BinarySearchBy(s, item, mode, left, mid)

\* index (0-based) of the first element not less than item
lower_bound(s, item) == BinarySearchBy(s, item, "lower", 0, Len(s))

\* index (0-based) of the first element greater than item
upper_bound(s, item) == BinarySearchBy(s, item, "upper", 0, Len(s))

\* &s[from..to] with 0-based, half-open indexes (the caller keeps from <= to)
Slice(s, from, to) == SubSeq(s, from + 1, to)

(***************************************************************************)
(* Index slices: the keys of a set in ascending order.                     *)
(***************************************************************************)
RECURSIVE SortedSeq(_)
SortedSeq(S) ==
    IF S = {} THEN <<>>
    ELSE LET m == CHOOSE x \in S : \A y \in S : x <= y
         IN  <<m>> \o SortedSeq(S \ {m})

SeqToSet(s) == {s[i] : i \in 1..Len(s)}

(***************************************************************************)
(* Records of the store (models.rs).  fields is a BTreeMap<String,String>: *)
(* a set of <<name, value>> pairs with distinct names.                     *)
(***************************************************************************)
Str(c) == <<c>>

MapHas(fields, name) == \E p \in fields : p[1] = name
MapGet(fields, name) == (CHOOSE p \in fields : p[1] = name)[2]

Instance(id, connected_at, disconnected_at, fields) ==
    [id |-> id, connected_at |-> connected_at,
     disconnected_at |-> disconnected_at, fields |-> fields]

Span(instance_key, id, created_at, closed_at, parent_key, level, name, fields) ==
    [instance_key |-> instance_key, id |-> id, created_at |-> created_at,
     closed_at |-> closed_at, parent_key |-> parent_key, level |-> level,
     name |-> name, fields |-> fields]

Event(instance_key, timestamp, span_key, level, fields) ==
    [instance_key |-> instance_key, timestamp |-> timestamp,
     span_key |-> span_key, level |-> level, fields |-> fields]

\* Span::duration: closed_at - created_at (saturating) when closed, else None.
\* Option<u64> as [some, val].
SpanDuration(span) ==
    IF span.closed_at = None THEN [some |-> FALSE, val |-> 0]
    ELSE [some |-> TRUE, val |-> Max(span.closed_at - span.created_at, 0)]

\* Storage::get_event / get_span (point lookups by key)
HasEvent(at) == at \in DOMAIN events
HasSpan(at) == at \in DOMAIN spans

(***************************************************************************)
(* Engine maps and ancestor chains.                                        *)
(***************************************************************************)
\* instance_key_map: InstanceId -> InstanceKey, as [some, key]
InstanceKeyMapGet(instance_id) ==
    IF \E k \in DOMAIN instances : instances[k].id = instance_id
    THEN [some |-> TRUE, key |-> CHOOSE k \in DOMAIN instances : instances[k].id = instance_id]
    ELSE [some |-> FALSE, key |-> None]

\* span_key_map: (InstanceKey, SpanId) -> SpanKey, as [some, key]
SpanKeyMapGet(instance_key, span_id) ==
    IF \E k \in DOMAIN spans : spans[k].instance_key = instance_key /\ spans[k].id = span_id
    THEN [some |-> TRUE,
          key |-> CHOOSE k \in DOMAIN spans :
                      spans[k].instance_key = instance_key /\ spans[k].id = span_id]
    ELSE [some |-> FALSE, key |-> None]

\* the enclosing span keys of a span, innermost first, starting with the span itself
RECURSIVE SpanChain(_)
SpanChain(span_key) ==
    IF span_key = None \/ span_key \notin DOMAIN spans THEN <<>>
    ELSE <<span_key>> \o SpanChain(spans[span_key].parent_key)

\* event_ancestors[event]: the event's own fields, then its enclosing spans
EventAncestors(event_key) == SpanChain(events[event_key].span_key)

\* span_ancestors[span]: the span's own fields, then its enclosing spans
SpanAncestors(span_key) == SpanChain(spans[span_key].parent_key)

RECURSIVE ChainValue(_, _)
ChainValue(chain, attribute) ==
    IF chain = <<>> THEN [some |-> FALSE, val |-> <<>>]
    ELSE IF MapHas(spans[Head(chain)].fields, attribute)
         THEN [some |-> TRUE, val |-> MapGet(spans[Head(chain)].fields, attribute)]
         ELSE ChainValue(Tail(chain), attribute)

\* Ancestors::get_value for an event: first holder of the attribute wins
EventGetValue(event_key, attribute) ==
    IF MapHas(events[event_key].fields, attribute)
    THEN [some |-> TRUE, val |-> MapGet(events[event_key].fields, attribute)]
    ELSE ChainValue(EventAncestors(event_key), attribute)

\* Ancestors::get_value for a span
SpanGetValue(span_key, attribute) ==
    IF MapHas(spans[span_key].fields, attribute)
    THEN [some |-> TRUE, val |-> MapGet(spans[span_key].fields, attribute)]
    ELSE ChainValue(SpanAncestors(span_key), attribute)

\* Ancestors::has_parent
EventHasParent(event_key, span_key) == span_key \in SeqToSet(EventAncestors(event_key))

(***************************************************************************)
(* EventIndexes.                                                           *)
(***************************************************************************)
\* the attribute names for which an index is kept
IndexedAttributes == {"x"}

EventIndexAll == SortedSeq(DOMAIN events)

EventIndexLevel(level) == SortedSeq({k \in DOMAIN events : events[k].level = level})

\* instances.get(key).unwrap_or_default()
EventIndexInstance(instance_key) ==
    SortedSeq({k \in DOMAIN events : events[k].instance_key = instance_key})

\* descendents has one entry per span of the store
EventIndexHasDescendents(span_key) == span_key \in DOMAIN spans

EventIndexDescendents(span_key) ==
    SortedSeq({k \in DOMAIN events : EventHasParent(k, span_key)})

EventIndexHasAttribute(attribute) == attribute \in IndexedAttributes

\* attributes[name].get(value).unwrap_or_default()
EventIndexAttribute(attribute, value) ==
    SortedSeq({k \in DOMAIN events :
                  /\ EventGetValue(k, attribute).some
                  /\ EventGetValue(k, attribute).val = value})

(***************************************************************************)
(* filter/input: FilterPredicate {property_kind, property, value_operator, *)
(* value}.  property_kind is "None", "Inherent" or "Attribute";            *)
(* value_operator is "None", "Gt", "Gte", "Lt", "Lte", "Eq" or "Ne".       *)
(***************************************************************************)
FilterPredicate(property_kind, property, value_operator, value) ==
    [property_kind |-> property_kind, property |-> property,
     value_operator |-> value_operator, value |-> value]

\* Result<_, InputError>
Ok(v) == [ok |-> TRUE, val |-> v, err |-> "None"]
Err(e) == [ok |-> FALSE, val |-> <<>>, err |-> e]

ParseLevel(value) ==
    CASE value = <<"T", "R", "A", "C", "E">> -> [ok |-> TRUE, val |-> LevelTrace]
      [] value = <<"D", "E", "B", "U", "G">> -> [ok |-> TRUE, val |-> LevelDebug]
      [] value = <<"I", "N", "F", "O">> -> [ok |-> TRUE, val |-> LevelInfo]
      [] value = <<"W", "A", "R", "N">> -> [ok |-> TRUE, val |-> LevelWarn]
      [] value = <<"E", "R", "R", "O", "R">> -> [ok |-> TRUE, val |-> LevelError]
      [] OTHER -> [ok |-> FALSE, val |-> 0]

(***************************************************************************)
(* BasicEventFilter: Level | Instance | Ancestor | Attribute | And | Or    *)
(***************************************************************************)
\* one record shape for BasicEventFilter and BasicSpanFilter; op and measure
\* carry a DurationFilter (Gt | Lt, u64) or a TimestampComparisonFilter
\* (Gt | Gte | Lte | Lt, Timestamp)
BasicFilter(type, level, key, attribute, value, op, measure, filters) ==
    [type |-> type, level |-> level, key |-> key, attribute |-> attribute,
     value |-> value, op |-> op, measure |-> measure, filters |-> filters]

BasicLevel(level) == BasicFilter("Level", level, None, "", <<>>, "", 0, <<>>)
BasicInstance(instance_key) == BasicFilter("Instance", 0, instance_key, "", <<>>, "", 0, <<>>)
BasicAncestor(span_key) == BasicFilter("Ancestor", 0, span_key, "", <<>>, "", 0, <<>>)
BasicAttribute(attribute, value) ==
    BasicFilter("Attribute", 0, None, attribute, value, "", 0, <<>>)
BasicDuration(op, measure) == BasicFilter("Duration", 0, None, "", <<>>, op, measure, <<>>)
BasicCreated(op, at) == BasicFilter("Created", 0, None, "", <<>>, op, at, <<>>)
BasicName(value) == BasicFilter("Name", 0, None, "", value, "", 0, <<>>)
BasicRoot == BasicFilter("Root", 0, None, "", <<>>, "", 0, <<>>)
BasicAnd(filters) == BasicFilter("And", 0, None, "", <<>>, "", 0, filters)
BasicOr(filters) == BasicFilter("Or", 0, None, "", <<>>, "", 0, filters)

\* the property kind a predicate resolves to for events
EventPropertyKind(predicate) ==
    IF predicate.property_kind # "None" THEN predicate.property_kind
    ELSE IF predicate.property \in {"level", "instance", "stack"} THEN "Inherent"
         ELSE "Attribute"

\* BasicEventFilter::from_predicate
BasicEventFilter_from_predicate(predicate) ==
    LET property_kind == EventPropertyKind(predicate)
        op == predicate.value_operator
    IN
    IF property_kind = "Inherent" /\ predicate.property = "level" THEN
        LET level == ParseLevel(predicate.value) IN
        IF ~level.ok THEN Err("InvalidLevelValue")
        ELSE IF op \notin {"Gte", "None"} THEN Err("InvalidLevelOperator")
        ELSE IF op = "Gte"
             THEN Ok(BasicOr([i \in 1..(5 - level.val) |-> BasicLevel(level.val + i - 1)]))
             ELSE Ok(BasicLevel(level.val))
    ELSE IF property_kind = "Inherent" /\ predicate.property = "instance" THEN
        LET instance_id == ParseU64(predicate.value) IN
        IF ~instance_id.ok THEN Err("InvalidInstanceValue")
        ELSE IF op # "None" THEN Err("InvalidInstanceOperator")
        ELSE LET found == InstanceKeyMapGet(instance_id.val)
             IN  Ok(BasicInstance(IF found.some THEN found.key ELSE TimestampMIN))
    ELSE IF property_kind = "Inherent" /\ predicate.property = "stack" THEN
        LET id == parse_full_span_id(predicate.value) IN
        IF ~id.ok THEN Err("InvalidStackValue")
        ELSE IF op # "None" THEN Err("InvalidStackOperator")
        ELSE LET inst == InstanceKeyMapGet(id.instance_id)
                 instance_key == IF inst.some THEN inst.key ELSE TimestampMIN
                 span == SpanKeyMapGet(instance_key, id.span_id)
             IN  Ok(BasicAncestor(IF span.some THEN span.key ELSE TimestampMIN))
    ELSE IF property_kind = "Inherent" THEN Err("InvalidInherentProperty")
    ELSE IF op # "None" THEN Err("InvalidAttributeOperator")
         ELSE Ok(BasicAttribute(predicate.property, predicate.value))

BasicFilter_simplify_root_only(filter) ==
    IF filter.type \in {"And", "Or"} /\ Len(filter.filters) = 1
    THEN filter.filters[1]
    ELSE filter

\* BasicEventFilter::simplify (the same code serves the span filter)
RECURSIVE BasicFilter_simplify(_)
BasicFilter_simplify(filter) ==
    IF filter.type \in {"And", "Or"}
    THEN LET filters == [i \in 1..Len(filter.filters) |->
                            BasicFilter_simplify(filter.filters[i])]
         IN  IF Len(filters) = 1 THEN filters[1]
             ELSE [filter EXCEPT !.filters = filters]
    ELSE filter

\* BasicEventFilter::matches
RECURSIVE BasicEventFilter_matches(_, _)
BasicEventFilter_matches(filter, event_key) ==
    CASE filter.type = "Level" -> events[event_key].level = filter.level
      [] filter.type = "Instance" -> events[event_key].instance_key = filter.key
      [] filter.type = "Ancestor" -> EventHasParent(event_key, filter.key)
      [] filter.type = "Attribute" ->
            LET v == EventGetValue(event_key, filter.attribute)
            IN  v.some /\ v.val = filter.value
      [] filter.type = "And" ->
            \A i \in 1..Len(filter.filters) :
                BasicEventFilter_matches(filter.filters[i], event_key)
      [] filter.type = "Or" ->
            \E i \in 1..Len(filter.filters) :
                BasicEventFilter_matches(filter.filters[i], event_key)

(***************************************************************************)
(* Indexed filters.  One record shape serves IndexedEventFilter and        *)
(* IndexedSpanFilter: Single(entries, filter), Stratified(entries, range,  *)
(* filter), And(children), Or(children).  filter is the optional           *)
(* non-indexed (residual) filter.                                           *)
(***************************************************************************)
NonIndexed(type, attribute, value, op, measure) ==
    [type |-> type, attribute |-> attribute, value |-> value, op |-> op,
     measure |-> measure]

NoFilter == NonIndexed("None", "", <<>>, "", 0)
NonIndexedAttribute(attribute, value) == NonIndexed("Attribute", attribute, value, "", 0)
NonIndexedDuration(op, measure) == NonIndexed("Duration", "", <<>>, op, measure)

Indexed(type, entries, range, filter, children) ==
    [type |-> type, entries |-> entries, range |-> range, filter |-> filter,
     children |-> children]

Single(entries, filter) == Indexed("Single", entries, <<0, 0>>, filter, <<>>)
Stratified(entries, range, filter) == Indexed("Stratified", entries, range, filter, <<>>)
And(children) == Indexed("And", <<>>, <<0, 0>>, NoFilter, children)
Or(children) == Indexed("Or", <<>>, <<0, 0>>, NoFilter, children)

\* a construction that panicked (an index lookup of a missing key)
Panicked == Indexed("Panic", <<>>, <<0, 0>>, NoFilter, <<>>)

\* IndexedEventFilter::build(Some(filter), event_indexes)
RECURSIVE IndexedEventFilter_build(_)
IndexedEventFilter_build(filter) ==
    CASE filter.type = "Level" -> Single(EventIndexLevel(filter.level), NoFilter)
      [] filter.type = "Instance" -> Single(EventIndexInstance(filter.key), NoFilter)
      [] filter.type = "Ancestor" ->
            \* &event_indexes.descendents[&ancestor_key] panics on a missing key
            IF EventIndexHasDescendents(filter.key)
            THEN Single(EventIndexDescendents(filter.key), NoFilter)
            ELSE Panicked
      [] filter.type = "Attribute" ->
            IF EventIndexHasAttribute(filter.attribute)
            THEN Single(EventIndexAttribute(filter.attribute, filter.value), NoFilter)
            ELSE Single(EventIndexAll, NonIndexedAttribute(filter.attribute, filter.value))
      [] filter.type \in {"And", "Or"} ->
            LET children == [i \in 1..Len(filter.filters) |->
                                IndexedEventFilter_build(filter.filters[i])]
            IN  IF \E i \in 1..Len(children) : children[i].type = "Panic"
                THEN Panicked
                ELSE Indexed(filter.type, <<>>, <<0, 0>>, NoFilter, children)

\* IndexedEventFilter::build(None, event_indexes)
IndexedEventFilter_build_none == Single(EventIndexAll, NoFilter)

\* NonIndexedEventFilter::matches
NonIndexedEventFilter_matches(filter, entry) ==
    LET v == EventGetValue(entry, filter.attribute)
    IN  v.some /\ v.val = filter.value

(***************************************************************************)
(* IndexedEventFilter::search.  The result is [status, key, node]: status  *)
(* "some" with the key found, "none", "panic" (an unwrap of None or an     *)
(* index out of range) or "hang" (a loop whose state repeats and so never  *)
(* ends); node is the filter as the call left it (its slices advanced).    *)
(***************************************************************************)
Found(key, node) == [status |-> "some", key |-> key, node |-> node]
NotFound(node) == [status |-> "none", key |-> None, node |-> node]
Abort(status, node) == [status |-> status, key |-> None, node |-> node]

\* the Asc arm with the slice moved past a key that lies beyond the bound
RECURSIVE EventSingleAsc_past_bound(_, _, _)
EventSingleAsc_past_bound(node, entry, bound) ==
    LET idx == lower_bound(node.entries, entry)
        entries == Slice(node.entries, idx, Len(node.entries))
        advanced == [node EXCEPT !.entries = entries]
    IN  IF entries = <<>> THEN NotFound(advanced)
        ELSE LET found_entry == Head(entries) IN
             IF found_entry > bound
             THEN NotFound([node EXCEPT !.entries = Tail(entries)])
             ELSE IF node.filter.type = "None" THEN Found(found_entry, advanced)
             ELSE IF NonIndexedEventFilter_matches(node.filter, found_entry)
                  THEN Found(found_entry, advanced)
             ELSE IF SaturatingAdd1(found_entry) = entry /\ entries = node.entries
                  THEN Abort("hang", advanced)
             ELSE EventSingleAsc_past_bound(advanced, SaturatingAdd1(found_entry), bound)

RECURSIVE EventSingleAsc(_, _, _)
EventSingleAsc(node, entry, bound) ==
    LET idx == lower_bound(node.entries, entry)
        entries == Slice(node.entries, idx, Len(node.entries))
        advanced == [node EXCEPT !.entries = entries]
    IN  IF entries = <<>> THEN NotFound(advanced)
        ELSE LET found_entry == Head(entries) IN
             IF found_entry > bound THEN NotFound(advanced)
             ELSE IF node.filter.type = "None" THEN Found(found_entry, advanced)
             ELSE IF NonIndexedEventFilter_matches(node.filter, found_entry)
                  THEN Found(found_entry, advanced)
             ELSE IF SaturatingAdd1(found_entry) = entry /\ entries = node.entries
                  THEN Abort("hang", advanced)
             ELSE EventSingleAsc(advanced, SaturatingAdd1(found_entry), bound)

RECURSIVE EventSingleDesc(_, _, _)
EventSingleDesc(node, entry, bound) ==
    LET idx == upper_bound(node.entries, entry)
        entries == Slice(node.entries, 0, idx)
        advanced == [node EXCEPT !.entries = entries]
    IN  IF entries = <<>> THEN NotFound(advanced)
        ELSE LET found_entry == entries[Len(entries)] IN
             IF found_entry < bound THEN NotFound(advanced)
             ELSE IF node.filter.type = "None" THEN Found(found_entry, advanced)
             ELSE IF NonIndexedEventFilter_matches(node.filter, found_entry)
                  THEN Found(found_entry, advanced)
             ELSE IF NewPred(found_entry) = None THEN Abort("panic", advanced)
             ELSE EventSingleDesc(advanced, NewPred(found_entry), bound)

RECURSIVE IndexedEventFilter_search(_, _, _, _)
RECURSIVE EventAndLoop(_, _, _, _)
RECURSIVE EventAndRest(_, _, _, _)
RECURSIVE EventOrRest(_, _, _, _, _, _)

\* the for loop of the And arm over indexed_filters[1..], from child i on.
\* outcome "agree": every child returned current; "restart": continue 'outer
\* with a new current; "panic"/"hang": the call does not return.
EventAndRest(children, i, current, order) ==
    IF i > Len(children)
    THEN [outcome |-> "agree", current |-> current, children |-> children]
    ELSE LET r == IndexedEventFilter_search(children[i], current, order, current)
             after == [children EXCEPT ![i] = r.node]
         IN  CASE r.status = "some" /\ r.key # current ->
                    [outcome |-> "restart", current |-> r.key, children |-> after]
               [] r.status = "some" /\ r.key = current ->
                    EventAndRest(after, i + 1, current, order)
               [] r.status = "none" /\ order = "Asc" ->
                    [outcome |-> "restart", current |-> SaturatingAdd1(current),
                     children |-> after]
               [] r.status = "none" /\ order = "Desc" ->
                    IF NewPred(current) = None
                    THEN [outcome |-> "panic", current |-> current, children |-> after]
                    ELSE [outcome |-> "restart", current |-> NewPred(current),
                          children |-> after]
               [] OTHER ->
                    [outcome |-> r.status, current |-> current, children |-> after]

\* the 'outer loop of the And arm
EventAndLoop(node, current, order, bound) ==
    LET first == IndexedEventFilter_search(node.children[1], current, order, bound)
        children0 == [node.children EXCEPT ![1] = first.node]
    IN  IF first.status # "some"
        THEN [status |-> first.status, key |-> None,
              node |-> [node EXCEPT !.children = children0]]
        ELSE LET rest == EventAndRest(children0, 2, first.key, order)
                 after == [node EXCEPT !.children = rest.children]
             IN  CASE rest.outcome = "agree" -> Found(rest.current, after)
                   [] rest.outcome = "restart" ->
                        IF rest.current = current /\ after = node
                        THEN Abort("hang", after)
                        ELSE EventAndLoop(after, rest.current, order, bound)
                   [] OTHER -> Abort(rest.outcome, after)

\* the for loop of the Or arm over indexed_filters[1..], from child i on
EventOrRest(children, i, entry, order, bound, next_entry) ==
    IF i > Len(children)
    THEN [status |-> IF next_entry = None THEN "none" ELSE "some",
          key |-> next_entry, children |-> children]
    ELSE LET tightened == IF next_entry # None THEN next_entry ELSE bound
             r == IndexedEventFilter_search(children[i], entry, order, tightened)
             after == [children EXCEPT ![i] = r.node]
             best == IF r.status # "some" THEN next_entry
                     ELSE IF next_entry = None THEN r.key
                     ELSE IF order = "Asc" /\ next_entry > r.key THEN r.key
                     ELSE IF order = "Desc" /\ next_entry < r.key THEN r.key
                     ELSE next_entry
         IN  IF r.status \in {"panic", "hang"}
             THEN [status |-> r.status, key |-> None, children |-> after]
             ELSE EventOrRest(after, i + 1, entry, order, bound, best)

IndexedEventFilter_search(node, entry, order, bound) ==
    CASE node.type = "Single" ->
            IF order = "Asc" THEN EventSingleAsc(node, entry, bound)
            ELSE EventSingleDesc(node, entry, bound)
      [] node.type = "And" ->
            \* indexed_filters[0] of an empty vector is out of range
            IF node.children = <<>> THEN Abort("panic", node)
            ELSE EventAndLoop(node, entry, order, bound)
      [] node.type = "Or" ->
            IF node.children = <<>> THEN Abort("panic", node)
            ELSE LET first == IndexedEventFilter_search(node.children[1], entry, order, bound)
                     children0 == [node.children EXCEPT ![1] = first.node]
                 IN  IF first.status \in {"panic", "hang"}
                     THEN Abort(first.status, [node EXCEPT !.children = children0])
                     ELSE LET rest == EventOrRest(children0, 2, entry, order, bound, first.key)
                          IN  [status |-> rest.status, key |-> rest.key,
                               node |-> [node EXCEPT !.children = rest.children]]

(***************************************************************************)
(* estimate_count, optimize, trim_to_timeframe (event plans).              *)
(***************************************************************************)
RECURSIVE SeqSum(_)
SeqSum(s) == IF s = <<>> THEN 0 ELSE Head(s) + SeqSum(Tail(s))

RECURSIVE SeqMin(_)
SeqMin(s) == IF Len(s) = 1 THEN Head(s) ELSE Min(Head(s), SeqMin(Tail(s)))

\* IndexedEventFilter::estimate_count and IndexedSpanFilter::estimate_count
RECURSIVE estimate_count(_)
estimate_count(node) ==
    CASE node.type \in {"Single", "Stratified"} -> Len(node.entries)
      [] node.type = "And" ->
            IF node.children = <<>> THEN 0
            ELSE SeqMin([i \in 1..Len(node.children) |-> estimate_count(node.children[i])])
      [] node.type = "Or" ->
            SeqSum([i \in 1..Len(node.children) |-> estimate_count(node.children[i])])

\* insert x into the sorted sequence s after every element whose key is <= key(x)
RECURSIVE InsertByCount(_, _)
InsertByCount(s, x) ==
    IF s = <<>> THEN <<x>>
    ELSE IF estimate_count(Head(s)) <= estimate_count(x)
         THEN <<Head(s)>> \o InsertByCount(Tail(s), x)
         ELSE <<x>> \o s

\* Vec::sort_by_key(estimate_count): a stable sort
RECURSIVE SortByEstimate(_)
SortByEstimate(s) ==
    IF s = <<>> THEN <<>>
    ELSE InsertByCount(SortByEstimate(SubSeq(s, 1, Len(s) - 1)), s[Len(s)])

\* IndexedEventFilter::optimize and IndexedSpanFilter::optimize
optimize(node) ==
    IF node.type \in {"And", "Or"}
    THEN [node EXCEPT !.children = SortByEstimate(node.children)]
    ELSE node

\* IndexedEventFilter::trim_to_timeframe.  The result is [ok, node]; ok is
\* FALSE when &index[start_idx..end_idx] is out of order (a panic).
RECURSIVE IndexedEventFilter_trim_to_timeframe(_, _, _)
IndexedEventFilter_trim_to_timeframe(node, start, end) ==
    IF node.type = "Single"
    THEN LET start_idx == lower_bound(node.entries, start)
             end_idx == upper_bound(node.entries, end)
         IN  IF start_idx > end_idx THEN [ok |-> FALSE, node |-> node]
             ELSE [ok |-> TRUE,
                   node |-> [node EXCEPT !.entries = Slice(node.entries, start_idx, end_idx)]]
    ELSE LET trimmed == [i \in 1..Len(node.children) |->
                            IndexedEventFilter_trim_to_timeframe(node.children[i], start, end)]
         IN  [ok |-> \A i \in 1..Len(trimmed) : trimmed[i].ok,
              node |-> [node EXCEPT !.children =
                           [i \in 1..Len(trimmed) |-> trimmed[i].node]]]

(***************************************************************************)
(* EventQuery and IndexedEventFilterIterator.                              *)
(***************************************************************************)
Query(filter, order, limit, start, end, previous) ==
    [filter |-> filter, order |-> order, limit |-> limit, start |-> start,
     end |-> end, previous |-> previous]

NoQuery == Query(<<>>, "Asc", 0, None, None, None)

EventIter(filter, order, start_key, end_key) ==
    [filter |-> filter, order |-> order, start_key |-> start_key, end_key |-> end_key]

NoEventIter == EventIter(Panicked, "Asc", None, None)

\* IndexedEventFilterIterator::new.  The result is [ok, iter]; ok is FALSE
\* when the construction panics.
IndexedEventFilterIterator_new(query) ==
    LET prev_ok == ~(query.previous # None /\ query.order = "Desc"
                     /\ NewPred(query.previous) = None)
        start == IF query.previous # None /\ query.order = "Asc"
                 THEN SaturatingAdd1(query.previous) ELSE query.start
        end == IF query.previous # None /\ query.order = "Desc"
               THEN NewPred(query.previous) ELSE query.end
        finish(trimmed) ==
            IF ~trimmed.ok THEN [ok |-> FALSE, iter |-> NoEventIter]
            ELSE [ok |-> TRUE,
                  iter |-> EventIter(optimize(trimmed.node), query.order,
                                     IF query.order = "Asc" THEN start ELSE end,
                                     IF query.order = "Asc" THEN end ELSE start)]
        trim(built) ==
            IF built.type = "Panic" \/ ~prev_ok THEN [ok |-> FALSE, iter |-> NoEventIter]
            ELSE finish(IndexedEventFilter_trim_to_timeframe(built, start, end))
        lower(lowered) ==
            IF \E i \in 1..Len(lowered) : ~lowered[i].ok
            THEN [ok |-> FALSE, iter |-> NoEventIter]
            ELSE trim(IndexedEventFilter_build(
                     BasicFilter_simplify(
                         BasicAnd([i \in 1..Len(lowered) |-> lowered[i].val]))))
    IN  lower([i \in 1..Len(query.filter) |->
                  BasicEventFilter_from_predicate(query.filter[i])])

\* IndexedEventFilterIterator::next.  The result is [status, key, iter].
IndexedEventFilterIterator_next(iter) ==
    LET advance(r) ==
            IF r.status # "some"
            THEN [status |-> r.status, key |-> None, iter |-> [iter EXCEPT !.filter = r.node]]
            ELSE IF iter.order = "Asc"
                 THEN [status |-> "some", key |-> r.key,
                       iter |-> [iter EXCEPT !.filter = r.node,
                                             !.start_key = SaturatingAdd1(r.key)]]
            ELSE IF NewPred(r.key) = None
                 THEN [status |-> "panic", key |-> None,
                       iter |-> [iter EXCEPT !.filter = r.node]]
            ELSE [status |-> "some", key |-> r.key,
                  iter |-> [iter EXCEPT !.filter = r.node, !.start_key = NewPred(r.key)]]
    IN  advance(IndexedEventFilter_search(iter.filter, iter.start_key, iter.order,
                                          iter.end_key))

(***************************************************************************)
(* The event side as a state machine: events are ingested in key order,    *)
(* then a query is built over the store and its iterator is run.           *)
(***************************************************************************)
\* the instances and spans the ingested events refer to
WorldInstances ==
    (2 :> Instance(7, 2, None, {})) @@ (3 :> Instance(8, 3, None, {}))

WorldSpans ==
    (2 :> Span(2, 1, 2, None, None, LevelInfo, Str("a"), {<<"x", Str("y")>>}))
    @@ (3 :> Span(2, 2, 3, None, 2, LevelInfo, Str("b"), {}))

\* what an ingested event may look like (instance_key, span_key, level, fields)
EventInputs ==
    { [instance_key |-> 2, span_key |-> None, level |-> LevelInfo, fields |-> {}],
      [instance_key |-> 2, span_key |-> 3, level |-> LevelError, fields |-> {}],
      [instance_key |-> 3, span_key |-> None, level |-> LevelWarn,
       fields |-> {<<"u", Str("v")>>}] }

PLevel(op, value) == FilterPredicate("None", "level", op, value)
PInstance(value) == FilterPredicate("None", "instance", "None", value)
PStack(value) == FilterPredicate("None", "stack", "None", value)
PAttribute(name, value) == FilterPredicate("Attribute", name, "None", value)

\* the predicate lists a query may carry
EventFilters ==
    { <<PLevel("None", <<"I", "N", "F", "O">>)>>,
      <<PLevel("Gte", <<"W", "A", "R", "N">>)>>,
      <<PInstance(<<"7">>)>>,
      <<PInstance(<<"9">>)>>,
      <<PStack(<<"7", "-", "1">>)>>,
      <<PStack(<<"7", "-", "5">>)>>,
      <<PStack(<<"9", "-", "1">>)>>,
      <<PAttribute("x", Str("y"))>>,
      <<PAttribute("u", Str("v"))>>,
      <<PLevel("Gte", <<"I", "N", "F", "O">>), PAttribute("u", Str("v"))>>,
      <<PInstance(<<"7">>), PLevel("None", <<"E", "R", "R", "O", "R">>)>>,
      <<PLevel("Gte", <<"D", "E", "B", "U", "G">>)>>,
      <<PLevel("Gte", <<"E", "R", "R", "O", "R">>)>>,
      <<>> }

NoProbe == [op |-> "none", node |-> Panicked, entry |-> None, order |-> "Asc",
            bound |-> None, result |-> NotFound(Panicked)]

NoSpanIter == [filter |-> Panicked, order |-> "Asc", curr_key |-> None,
               start_key |-> None, end_key |-> None]

InitEvent ==
    /\ instances = WorldInstances
    /\ spans = WorldSpans
    /\ events = <<>>
    /\ equery = NoQuery
    /\ eiter = NoEventIter
    /\ eout = <<>>
    /\ epc = "idle"
    /\ squery = NoQuery
    /\ siter = NoSpanIter
    /\ sout = <<>>
    /\ spc = "idle"
    /\ probe = NoProbe
    /\ IoIdle

\* insert_event: the event is stored under a key above every stored key
InsertEvent ==
    /\ epc = "idle"
    /\ \E ts \in Timestamps, e \in EventInputs :
          /\ \A k \in DOMAIN events : k < ts
          /\ events' = [k \in DOMAIN events \cup {ts} |->
                           IF k = ts
                           THEN Event(e.instance_key, ts, e.span_key, e.level, e.fields)
                           ELSE events[k]]
    /\ UNCHANGED <<instances, spans, equery, eiter, eout, epc,
                   squery, siter, sout, spc, probe>>
    /\ UNCHANGED ioVars

\* query_event: IndexedEventFilterIterator::new(query, engine)
NewEventQuery ==
    /\ epc = "idle"
    /\ \E f \in EventFilters, order \in Orders, start \in Timestamps,
          end \in Timestamps, previous \in {None} \cup Timestamps :
          /\ start <= end
          /\ LET begin(query, made) ==
                     /\ equery' = query
                     /\ eiter' = made.iter
                     /\ epc' = IF made.ok THEN "iter" ELSE "panic"
             IN  begin(Query(f, order, 0, start, end, previous),
                       IndexedEventFilterIterator_new(
                           Query(f, order, 0, start, end, previous)))
    /\ UNCHANGED <<instances, spans, events, eout, squery, siter, sout, spc, probe>>
    /\ UNCHANGED ioVars

\* one call of IndexedEventFilterIterator::next.  A run that has yielded more
\* keys than there are events is not followed further.
EventNext ==
    /\ epc = "iter"
    /\ Len(eout) <= Cardinality(DOMAIN events)
    /\ LET step(r) ==
               /\ eiter' = r.iter
               /\ eout' = IF r.status = "some" THEN Append(eout, r.key) ELSE eout
               /\ epc' = CASE r.status = "some" -> "iter"
                           [] r.status = "none" -> "done"
                           [] OTHER -> r.status
       IN  step(IndexedEventFilterIterator_next(eiter))
    /\ UNCHANGED <<instances, spans, events, equery, squery, siter, sout, spc, probe>>
    /\ UNCHANGED ioVars

\* one direct call of IndexedEventFilter::search on a freshly built plan
EventSearchProbe ==
    /\ epc = "idle"
    /\ \E f \in EventFilters \ {<<>>}, order \in Orders, entry \in Timestamps,
          bound \in Timestamps :
          LET call(built) ==
                  /\ built.type # "Panic"
                  /\ probe' = [op |-> "search", node |-> built, entry |-> entry,
                               order |-> order, bound |-> bound,
                               result |-> IndexedEventFilter_search(built, entry, order,
                                                                    bound)]
              lower(lowered) ==
                  /\ \A i \in 1..Len(lowered) : lowered[i].ok
                  /\ call(IndexedEventFilter_build(
                          BasicFilter_simplify(
                              BasicAnd([i \in 1..Len(lowered) |-> lowered[i].val]))))
          IN  lower([i \in 1..Len(f) |-> BasicEventFilter_from_predicate(f[i])])
    /\ epc' = "probed"
    /\ UNCHANGED <<instances, spans, events, equery, eiter, eout,
                   squery, siter, sout, spc>>
    /\ UNCHANGED ioVars

NextEvent == InsertEvent \/ NewEventQuery \/ EventNext \/ EventSearchProbe

SpecEvent == InitEvent /\ [][NextEvent]_vars

(***************************************************************************)
(* What a query is meant to select.                                        *)
(***************************************************************************)
\* the BasicEventFilter a predicate list stands for (all predicates valid)
EventFilterOf(f) ==
    BasicFilter_simplify(
        BasicAnd([i \in 1..Len(f) |-> BasicEventFilter_from_predicate(f[i]).val]))

EventFilterValid(f) ==
    \A i \in 1..Len(f) : BasicEventFilter_from_predicate(f[i]).ok

\* the predicate list is not empty and every id it names is known to the engine
EventFilterKnown(f) ==
    /\ f # <<>>
    /\ \A i \in 1..Len(f) :
          /\ f[i].property = "instance" =>
                InstanceKeyMapGet(ParseU64(f[i].value).val).some
          /\ f[i].property = "stack" =>
                LET id == parse_full_span_id(f[i].value)
                    inst == InstanceKeyMapGet(id.instance_id)
                IN  inst.some /\ SpanKeyMapGet(inst.key, id.span_id).some

\* the events a query over [start, end] with this predicate list must yield
EventsExpected(f, start, end) ==
    {k \in DOMAIN events :
        start <= k /\ k <= end /\ BasicEventFilter_matches(EventFilterOf(f), k)}

NoDuplicates(s) == \A i, j \in 1..Len(s) : i # j => s[i] # s[j]

EventRunEnded == epc \in {"done", "panic", "hang"}

\* C1 (as claimed): a query without previous cursor, run to exhaustion, ends
\* and has then yielded every event of the window that satisfies the filter
\* exactly once, and nothing else.
C1_EveryMatchExactlyOnce ==
    (epc \in {"iter", "done", "panic", "hang"} /\ equery.previous = None
        /\ EventFilterValid(equery.filter) /\ EventFilterKnown(equery.filter))
    => /\ epc \notin {"panic", "hang"}
       /\ NoDuplicates(eout)
       /\ SeqToSet(eout) \subseteq
              EventsExpected(equery.filter, equery.start, equery.end)
       /\ epc = "done" =>
              SeqToSet(eout) = EventsExpected(equery.filter, equery.start, equery.end)

\* the same statement for stores and windows that stay off the two extreme keys
C1_Interior ==
    (TimestampMIN \notin DOMAIN events /\ TimestampMAX \notin DOMAIN events)
    => C1_EveryMatchExactlyOnce

(***************************************************************************)
(* C2: the contract of search.                                             *)
(***************************************************************************)
\* key k satisfies the whole tree: a member of the slice that passes the
\* residual at a leaf, agreed by every child of an And, found by a child of an Or
RECURSIVE EventTreeHolds(_, _)
EventTreeHolds(node, k) ==
    CASE node.type = "Single" ->
            /\ k \in SeqToSet(node.entries)
            /\ node.filter.type # "None" => NonIndexedEventFilter_matches(node.filter, k)
      [] node.type = "And" ->
            \A i \in 1..Len(node.children) : EventTreeHolds(node.children[i], k)
      [] node.type = "Or" ->
            \E i \in 1..Len(node.children) : EventTreeHolds(node.children[i], k)

\* the keys between cursor and bound, in the direction of the search, that satisfy the tree
EventCandidates(node, entry, order, bound) ==
    {k \in Timestamps :
        /\ IF order = "Asc" THEN entry <= k /\ k <= bound ELSE bound <= k /\ k <= entry
        /\ EventTreeHolds(node, k)}

SetMin(S) == CHOOSE x \in S : \A y \in S : x <= y
SetMax(S) == CHOOSE x \in S : \A y \in S : x >= y

\* C2 (as claimed): search(c, dir, b) returns the first key in the direction of
\* the search between c and b that satisfies the whole tree, and None exactly
\* when there is none.
C2_SearchContract ==
    probe.op = "search" =>
        LET cands == EventCandidates(probe.node, probe.entry, probe.order, probe.bound)
        IN  IF cands = {} THEN probe.result.status = "none"
            ELSE /\ probe.result.status = "some"
                 /\ probe.result.key =
                        IF probe.order = "Asc" THEN SetMin(cands) ELSE SetMax(cands)

\* the same statement for stores that stay off the two extreme keys
C2_Interior ==
    (TimestampMIN \notin DOMAIN events /\ TimestampMAX \notin DOMAIN events)
    => C2_SearchContract

(***************************************************************************)
(* C3: yielded keys and the timeframe.                                     *)
(***************************************************************************)
\* C3 (as claimed): every key an event query yields lies in [query.start,
\* query.end], whatever the order and the previous cursor.
C3_YieldedInTimeframe ==
    \A i \in 1..Len(eout) : equery.start <= eout[i] /\ eout[i] <= equery.end

\* the same statement for queries whose previous cursor lies in the timeframe
\* and stores that stay off the two extreme keys
C3_PreviousInside ==
    ((equery.previous = None
         \/ (equery.start <= equery.previous /\ equery.previous <= equery.end))
      /\ TimestampMIN \notin DOMAIN events /\ TimestampMAX \notin DOMAIN events)
    => C3_YieldedInTimeframe

(***************************************************************************)
(* C4: event pagination.                                                   *)
(***************************************************************************)
\* the iterator run to exhaustion: [status, out].  A run that has yielded more
\* keys than there are events is cut (status "over").
RECURSIVE EventRun(_, _)
EventRun(iter, out) ==
    IF Len(out) > Cardinality(DOMAIN events) THEN [status |-> "over", out |-> out]
    ELSE LET continue(r) ==
                 IF r.status = "some" THEN EventRun(r.iter, Append(out, r.key))
                 ELSE [status |-> IF r.status = "none" THEN "done" ELSE r.status,
                       out |-> out]
         IN  continue(IndexedEventFilterIterator_next(iter))

\* the unpaginated run of a query
EventUnpaginated(query) ==
    LET run(made) ==
            IF made.ok THEN EventRun(made.iter, <<>>)
            ELSE [status |-> "panic", out |-> <<>>]
    IN  run(IndexedEventFilterIterator_new([query EXCEPT !.previous = None]))

\* the part of s after its first occurrence of x
SeqAfter(s, x) ==
    LET i == CHOOSE j \in 1..Len(s) : s[j] = x /\ \A k \in 1..(j - 1) : s[k] # x
    IN  SubSeq(s, i + 1, Len(s))

IsPrefix(s, t) == Len(s) <= Len(t) /\ SubSeq(t, 1, Len(s)) = s

\* C4 (as claimed): a page with previous = p yields only keys strictly beyond p,
\* and when p is a key of the unpaginated run (the last key of the page before)
\* the page continues that run exactly where p left it.
C4_Pagination ==
    (epc \in {"iter", "done", "panic", "hang"} /\ equery.previous # None
        /\ EventFilterValid(equery.filter) /\ EventFilterKnown(equery.filter))
    => /\ \A i \in 1..Len(eout) :
              IF equery.order = "Asc" THEN eout[i] > equery.previous
              ELSE eout[i] < equery.previous
       /\ LET whole == EventUnpaginated(equery)
          IN  (whole.status = "done" /\ equery.previous \in SeqToSet(whole.out))
              => /\ epc \notin {"panic", "hang"}
                 /\ IsPrefix(eout, SeqAfter(whole.out, equery.previous))
                 /\ epc = "done" => eout = SeqAfter(whole.out, equery.previous)

\* the same statement for stores that stay off the two extreme keys
C4_Interior ==
    (TimestampMIN \notin DOMAIN events /\ TimestampMAX \notin DOMAIN events)
    => C4_Pagination

(***************************************************************************)
(* C10: unknown ids.                                                       *)
(***************************************************************************)
\* the predicate list names an instance id or a stack the engine does not know
EventFilterNamesUnknown(f) ==
    \E i \in 1..Len(f) :
        \/ /\ f[i].property = "instance"
           /\ ~InstanceKeyMapGet(ParseU64(f[i].value).val).some
        \/ /\ f[i].property = "stack"
           /\ LET id == parse_full_span_id(f[i].value)
                  inst == InstanceKeyMapGet(id.instance_id)
              IN  ~(inst.some /\ SpanKeyMapGet(inst.key, id.span_id).some)

\* C10 (as claimed): a query that names an unknown instance id or stack never
\* fails and yields no record.
C10_UnknownIdYieldsNothing ==
    (epc # "idle" /\ epc # "probed" /\ EventFilterValid(equery.filter)
        /\ EventFilterNamesUnknown(equery.filter))
    => epc # "panic" /\ epc # "hang" /\ eout = <<>>

\* the part of it that concerns instance ids only
C10_UnknownInstanceOnly ==
    ((\A i \in 1..Len(equery.filter) : equery.filter[i].property # "stack")
      /\ ~(equery.order = "Desc" /\ equery.previous = TimestampMIN))
    => C10_UnknownIdYieldsNothing

(***************************************************************************)
(* SpanIndexes.                                                            *)
(***************************************************************************)
SpanIndexAll == SortedSeq(DOMAIN spans)

SpanIndexLevel(level) == SortedSeq({k \in DOMAIN spans : spans[k].level = level})

\* instances.get(key).unwrap_or_default()
SpanIndexInstance(instance_key) ==
    SortedSeq({k \in DOMAIN spans : spans[k].instance_key = instance_key})

\* names.get(value).unwrap_or_default()
SpanIndexName(value) == SortedSeq({k \in DOMAIN spans : spans[k].name = value})

\* descendents has one entry per span of the store
SpanIndexHasDescendents(span_key) == span_key \in DOMAIN spans

SpanIndexDescendents(span_key) ==
    SortedSeq({k \in DOMAIN spans : span_key \in SeqToSet(SpanAncestors(k))})

SpanIndexRoots == SortedSeq({k \in DOMAIN spans : spans[k].parent_key = None})

SpanIndexHasAttribute(attribute) == attribute \in IndexedAttributes

\* attributes[name].get(value).unwrap_or_default()
SpanIndexAttribute(attribute, value) ==
    SortedSeq({k \in DOMAIN spans :
                  /\ SpanGetValue(k, attribute).some
                  /\ SpanGetValue(k, attribute).val = value})

(***************************************************************************)
(* SpanDurationIndex: band k holds the closed spans whose duration lies in *)
(* [2^k, 2^(k+1)); the top band also holds the open spans, and its range   *)
(* ends at the largest value of the integer type.                          *)
(***************************************************************************)
RECURSIVE Pow2(_)
Pow2(k) == IF k = 0 THEN 1 ELSE 2 * Pow2(k - 1)

\* the number of bands of the integer type (64 for u64)
BandCount == CHOOSE n \in 1..TimestampMAX : Pow2(n - 1) < TimestampMAX /\ Pow2(n) >= TimestampMAX

\* Range<u64> as <<start, end>>, end exclusive
BandRange(k) == <<Pow2(k), Min(Pow2(k + 1), TimestampMAX)>>

BandOf(span) ==
    LET d == SpanDuration(span)
    IN  IF ~d.some THEN BandCount - 1
        ELSE IF d.val < 1 THEN 0
        ELSE CHOOSE k \in 0..(BandCount - 1) : Pow2(k) <= d.val /\ d.val < Pow2(k + 1)

\* SpanDurationIndex::to_stratified_indexes: the (slice, range) pairs
to_stratified_indexes ==
    [i \in 1..BandCount |->
        [index |-> SortedSeq({k \in DOMAIN spans : BandOf(spans[k]) = i - 1}),
         range |-> BandRange(i - 1)]]

(***************************************************************************)
(* BasicSpanFilter: Level | Duration | Created | Instance | Name |         *)
(* Ancestor | Root | Attribute | And | Or                                  *)
(***************************************************************************)
\* SpanPropertyKind with "parent" left out of the reserved names
SpanPropertyKind_without_parent(predicate) ==
    IF predicate.property_kind # "None" THEN predicate.property_kind
    ELSE IF predicate.property \in
              {"level", "instance", "duration", "name", "created", "stack"}
         THEN "Inherent"
         ELSE "Attribute"

\* the property kind a predicate resolves to for spans
SpanPropertyKind(predicate) ==
    IF predicate.property_kind # "None" THEN predicate.property_kind
    ELSE IF predicate.property \in
              {"level", "instance", "duration", "name", "parent", "created", "stack"}
         THEN "Inherent"
         ELSE "Attribute"

\* BasicSpanFilter::from_predicate
BasicSpanFilter_from_predicate(predicate) ==
    LET property_kind == SpanPropertyKind(predicate)
        op == predicate.value_operator
    IN
    IF property_kind = "Inherent" /\ predicate.property = "level" THEN
        LET level == ParseLevel(predicate.value) IN
        IF ~level.ok THEN Err("InvalidLevelValue")
        ELSE IF op \notin {"Gte", "None"} THEN Err("InvalidLevelOperator")
        ELSE IF op = "Gte"
             THEN Ok(BasicOr([i \in 1..(5 - level.val) |-> BasicLevel(level.val + i - 1)]))
             ELSE Ok(BasicLevel(level.val))
    ELSE IF property_kind = "Inherent" /\ predicate.property = "duration" THEN
        LET measure == ParseU64(predicate.value) IN
        IF ~measure.ok THEN Err("InvalidDurationValue")
        ELSE IF op = "Gt" THEN Ok(BasicDuration("Gt", measure.val))
        ELSE IF op = "Lt" THEN Ok(BasicDuration("Lt", measure.val))
        ELSE IF op = "None" THEN Err("MissingDurationOperator")
        ELSE Err("InvalidDurationOperator")
    ELSE IF property_kind = "Inherent" /\ predicate.property = "name" THEN
        IF op # "None" THEN Err("InvalidNameOperator")
        ELSE Ok(BasicName(predicate.value))
    ELSE IF property_kind = "Inherent" /\ predicate.property = "instance" THEN
        LET instance_id == ParseU64(predicate.value) IN
        IF ~instance_id.ok THEN Err("InvalidInstanceValue")
        ELSE IF op # "None" THEN Err("InvalidInstanceOperator")
        ELSE LET found == InstanceKeyMapGet(instance_id.val)
             IN  Ok(BasicInstance(IF found.some THEN found.key ELSE TimestampMIN))
    ELSE IF property_kind = "Inherent" /\ predicate.property = "created" THEN
        \* a Timestamp parses as a non-zero u64
        LET at == ParseU64(predicate.value) IN
        IF ~at.ok \/ at.val = 0 THEN Err("InvalidCreatedValue")
        ELSE IF op \in {"Gte", "Gt", "Lte", "Lt"} THEN Ok(BasicCreated(op, at.val))
        ELSE IF op = "None" THEN Err("MissingCreatedOperator")
        ELSE Err("InvalidCreatedOperator")
    ELSE IF property_kind = "Inherent" /\ predicate.property = "parent" THEN
        IF predicate.value # <<"n", "o", "n", "e">> THEN Err("InvalidParentValue")
        ELSE IF op # "None" THEN Err("InvalidParentOperator")
        ELSE Ok(BasicRoot)
    ELSE IF property_kind = "Inherent" /\ predicate.property = "stack" THEN
        LET id == parse_full_span_id(predicate.value) IN
        IF ~id.ok THEN Err("InvalidStackValue")
        ELSE IF op # "None" THEN Err("InvalidStackOperator")
        ELSE LET inst == InstanceKeyMapGet(id.instance_id)
                 instance_key == IF inst.some THEN inst.key ELSE TimestampMIN
                 span == SpanKeyMapGet(instance_key, id.span_id)
             IN  Ok(BasicAncestor(IF span.some THEN span.key ELSE TimestampMIN))
    ELSE IF property_kind = "Inherent" THEN Err("InvalidInherentProperty")
    ELSE IF op # "None" THEN Err("InvalidAttributeOperator")
         ELSE Ok(BasicAttribute(predicate.property, predicate.value))

\* DurationFilter::matches_duration_range: Option<bool> as "true", "false", "none"
matches_duration_range(op, measure, range) ==
    CASE op = "Gt" /\ measure <= range[1] -> "true"
      [] op = "Gt" /\ measure > range[1] /\ measure > range[2] -> "false"
      [] op = "Gt" /\ measure > range[1] /\ measure <= range[2] -> "none"
      [] op = "Lt" /\ measure >= range[2] -> "true"
      [] op = "Lt" /\ measure < range[2] /\ measure < range[1] -> "false"
      [] op = "Lt" /\ measure < range[2] /\ measure >= range[1] -> "none"

\* drop the elements of a sequence that are marked
RECURSIVE FilterMap(_)
FilterMap(s) ==
    IF s = <<>> THEN <<>>
    ELSE IF Head(s).keep THEN <<Head(s).node>> \o FilterMap(Tail(s))
         ELSE FilterMap(Tail(s))

\* IndexedSpanFilter::build(Some(filter), span_indexes)
RECURSIVE IndexedSpanFilter_build(_)
IndexedSpanFilter_build(filter) ==
    CASE filter.type = "Level" -> Single(SpanIndexLevel(filter.level), NoFilter)
      [] filter.type = "Duration" ->
            LET filters == to_stratified_indexes
                verdict(i) == matches_duration_range(filter.op, filter.measure,
                                                     filters[i].range)
            IN  Or(FilterMap(
                    [i \in 1..Len(filters) |->
                        [keep |-> verdict(i) # "false",
                         node |-> Stratified(filters[i].index, filters[i].range,
                                             IF verdict(i) = "true" THEN NoFilter
                                             ELSE NonIndexedDuration(filter.op,
                                                                     filter.measure))]]))
      [] filter.type = "Created" ->
            LET all == SpanIndexAll
                gt == upper_bound(all, filter.measure)
                gte == lower_bound(all, filter.measure)
            IN  IF filter.op = "Gt" THEN Single(Slice(all, gt, Len(all)), NoFilter)
                ELSE IF filter.op = "Gte" THEN Single(Slice(all, gte, Len(all)), NoFilter)
                ELSE IF filter.op = "Lte" THEN Single(Slice(all, 0, gt), NoFilter)
                ELSE Single(Slice(all, 0, gte), NoFilter)
      [] filter.type = "Instance" -> Single(SpanIndexInstance(filter.key), NoFilter)
      [] filter.type = "Name" -> Single(SpanIndexName(filter.value), NoFilter)
      [] filter.type = "Ancestor" ->
            \* &span_indexes.descendents[&ancestor_key] panics on a missing key
            IF SpanIndexHasDescendents(filter.key)
            THEN Single(SpanIndexDescendents(filter.key), NoFilter)
            ELSE Panicked
      [] filter.type = "Root" -> Single(SpanIndexRoots, NoFilter)
      [] filter.type = "Attribute" ->
            IF SpanIndexHasAttribute(filter.attribute)
            THEN Single(SpanIndexAttribute(filter.attribute, filter.value), NoFilter)
            ELSE Single(SpanIndexAll, NonIndexedAttribute(filter.attribute, filter.value))
      [] filter.type \in {"And", "Or"} ->
            LET children == [i \in 1..Len(filter.filters) |->
                                IndexedSpanFilter_build(filter.filters[i])]
            IN  IF \E i \in 1..Len(children) : children[i].type = "Panic"
                THEN Panicked
                ELSE Indexed(filter.type, <<>>, <<0, 0>>, NoFilter, children)

\* IndexedSpanFilter::is_stratified
RECURSIVE is_stratified(_)
is_stratified(node) ==
    CASE node.type = "Single" -> FALSE
      [] node.type = "Stratified" -> TRUE
      [] node.type = "And" -> \E i \in 1..Len(node.children) : is_stratified(node.children[i])
      [] node.type = "Or" -> \A i \in 1..Len(node.children) : is_stratified(node.children[i])

ensure_stratified_first_band(node) ==
    IF is_stratified(node) THEN node
    ELSE LET dfilters == to_stratified_indexes
             dfilter == Or(<<Stratified(dfilters[1].index, dfilters[1].range, NoFilter)>>)
         IN  IF node.type = "And" THEN And(Append(node.children, dfilter))
             ELSE And(<<node, dfilter>>)

\* IndexedSpanFilter::ensure_stratified
ensure_stratified(node) ==
    IF is_stratified(node) THEN node
    ELSE LET dfilters == to_stratified_indexes
             dfilter == Or([i \in 1..Len(dfilters) |->
                               Stratified(dfilters[i].index, dfilters[i].range, NoFilter)])
         IN  IF node.type = "And" THEN And(Append(node.children, dfilter))
             ELSE And(<<node, dfilter>>)

\* NonIndexedSpanFilter::matches
NonIndexedSpanFilter_matches(filter, entry) ==
    IF filter.type = "Duration"
    THEN LET duration == SpanDuration(spans[entry])
         IN  IF ~duration.some THEN FALSE
             ELSE IF filter.op = "Gt" THEN duration.val > filter.measure
             ELSE duration.val < filter.measure
    ELSE LET v == SpanGetValue(entry, filter.attribute)
         IN  v.some /\ v.val = filter.value

(***************************************************************************)
(* IndexedSpanFilter::search, with the results of the event search.  start *)
(* is the start of the query's window; a span found before it is skipped   *)
(* when the store says it closed at or before start.                       *)
(***************************************************************************)
\* the Single and the Stratified arm, Asc
RECURSIVE SpanLeafAsc(_, _, _, _)
SpanLeafAsc(node, entry, bound, start) ==
    LET idx == lower_bound(node.entries, entry)
        entries == Slice(node.entries, idx, Len(node.entries))
        advanced == [node EXCEPT !.entries = entries]
    IN  IF entries = <<>> THEN NotFound(advanced)
        ELSE LET found_entry == Head(entries)
                 closed_at == spans[found_entry].closed_at
                 skipped == found_entry < start /\ closed_at # None /\ closed_at <= start
             IN
             IF found_entry > bound THEN NotFound(advanced)
             ELSE IF ~skipped /\ node.filter.type = "None" THEN Found(found_entry, advanced)
             ELSE IF ~skipped /\ NonIndexedSpanFilter_matches(node.filter, found_entry)
                  THEN Found(found_entry, advanced)
             ELSE IF SaturatingAdd1(found_entry) = entry /\ entries = node.entries
                  THEN Abort("hang", advanced)
             ELSE SpanLeafAsc(advanced, SaturatingAdd1(found_entry), bound, start)

\* the Single and the Stratified arm, Desc
RECURSIVE SpanLeafDesc(_, _, _, _)
SpanLeafDesc(node, entry, bound, start) ==
    LET idx == upper_bound(node.entries, entry)
        entries == Slice(node.entries, 0, idx)
        advanced == [node EXCEPT !.entries = entries]
    IN  IF entries = <<>> THEN NotFound(advanced)
        ELSE LET found_entry == entries[Len(entries)]
                 closed_at == spans[found_entry].closed_at
                 skipped == found_entry < start /\ closed_at # None /\ closed_at <= start
             IN
             IF found_entry < bound THEN NotFound(advanced)
             ELSE IF ~skipped /\ node.filter.type = "None" THEN Found(found_entry, advanced)
             ELSE IF ~skipped /\ NonIndexedSpanFilter_matches(node.filter, found_entry)
                  THEN Found(found_entry, advanced)
             ELSE IF NewPred(found_entry) = None THEN Abort("panic", advanced)
             ELSE SpanLeafDesc(advanced, NewPred(found_entry), bound, start)

RECURSIVE IndexedSpanFilter_search(_, _, _, _, _)
RECURSIVE SpanAndLoop(_, _, _, _, _)
RECURSIVE SpanAndRest(_, _, _, _, _)
RECURSIVE SpanOrRest(_, _, _, _, _, _, _)

\* the for loop of the And arm over indexed_filters[1..], from child i on
SpanAndRest(children, i, current, order, start) ==
    IF i > Len(children)
    THEN [outcome |-> "agree", current |-> current, children |-> children]
    ELSE LET r == IndexedSpanFilter_search(children[i], current, order, current, start)
             after == [children EXCEPT ![i] = r.node]
         IN  CASE r.status = "some" /\ r.key # current ->
                    [outcome |-> "restart", current |-> r.key, children |-> after]
               [] r.status = "some" /\ r.key = current ->
                    SpanAndRest(after, i + 1, current, order, start)
               [] r.status = "none" /\ order = "Asc" ->
                    [outcome |-> "restart", current |-> SaturatingAdd1(current),
                     children |-> after]
               [] r.status = "none" /\ order = "Desc" ->
                    IF NewPred(current) = None
                    THEN [outcome |-> "panic", current |-> current, children |-> after]
                    ELSE [outcome |-> "restart", current |-> NewPred(current),
                          children |-> after]
               [] OTHER ->
                    [outcome |-> r.status, current |-> current, children |-> after]

\* the 'outer loop of the And arm
SpanAndLoop(node, current, order, bound, start) ==
    LET first == IndexedSpanFilter_search(node.children[1], current, order, bound, start)
        children0 == [node.children EXCEPT ![1] = first.node]
    IN  IF first.status # "some"
        THEN [status |-> first.status, key |-> None,
              node |-> [node EXCEPT !.children = children0]]
        ELSE LET rest == SpanAndRest(children0, 2, first.key, order, start)
                 after == [node EXCEPT !.children = rest.children]
             IN  CASE rest.outcome = "agree" -> Found(rest.current, after)
                   [] rest.outcome = "restart" ->
                        IF rest.current = current /\ after = node
                        THEN Abort("hang", after)
                        ELSE SpanAndLoop(after, rest.current, order, bound, start)
                   [] OTHER -> Abort(rest.outcome, after)

\* the for loop of the Or arm over indexed_filters[1..], from child i on
SpanOrRest(children, i, entry, order, bound, start, next_entry) ==
    IF i > Len(children)
    THEN [status |-> IF next_entry = None THEN "none" ELSE "some",
          key |-> next_entry, children |-> children]
    ELSE LET tightened == IF next_entry # None THEN next_entry ELSE bound
             r == IndexedSpanFilter_search(children[i], entry, order, tightened, start)
             after == [children EXCEPT ![i] = r.node]
             best == IF r.status # "some" THEN next_entry
                     ELSE IF next_entry = None THEN r.key
                     ELSE IF order = "Asc" /\ next_entry > r.key THEN r.key
                     ELSE IF order = "Desc" /\ next_entry < r.key THEN r.key
                     ELSE next_entry
         IN  IF r.status \in {"panic", "hang"}
             THEN [status |-> r.status, key |-> None, children |-> after]
             ELSE SpanOrRest(after, i + 1, entry, order, bound, start, best)

IndexedSpanFilter_search(node, entry, order, bound, start) ==
    CASE node.type \in {"Single", "Stratified"} ->
            IF order = "Asc" THEN SpanLeafAsc(node, entry, bound, start)
            ELSE SpanLeafDesc(node, entry, bound, start)
      [] node.type = "And" ->
            \* indexed_filters[0] of an empty vector is out of range
            IF node.children = <<>> THEN Abort("panic", node)
            ELSE SpanAndLoop(node, entry, order, bound, start)
      [] node.type = "Or" ->
            IF node.children = <<>> THEN Abort("panic", node)
            ELSE LET first == IndexedSpanFilter_search(node.children[1], entry, order,
                                                       bound, start)
                     children0 == [node.children EXCEPT ![1] = first.node]
                 IN  IF first.status \in {"panic", "hang"}
                     THEN Abort(first.status, [node EXCEPT !.children = children0])
                     ELSE LET rest == SpanOrRest(children0, 2, entry, order, bound, start,
                                                 first.key)
                          IN  [status |-> rest.status, key |-> rest.key,
                               node |-> [node EXCEPT !.children = rest.children]]

(***************************************************************************)
(* IndexedSpanFilter::trim_to_timeframe.                                   *)
(***************************************************************************)
\* the Single arm: only the end is trimmed
Single_trim_to_timeframe(node, start, end) ==
    LET end_idx == upper_bound(node.entries, end)
    IN  [ok |-> TRUE, node |-> [node EXCEPT !.entries = Slice(node.entries, 0, end_idx)]]

\* the Stratified arm: trimmed to "max duration" before start, and by the end.
\* Timestamp::new(start.saturating_sub(range.end)).unwrap_or(MIN)
Stratified_trim_to_timeframe(node, start, end) ==
    LET trim_start == Max(start - node.range[2], TimestampMIN)
        start_idx == lower_bound(node.entries, trim_start)
        end_idx == upper_bound(node.entries, end)
    IN  IF start_idx > end_idx THEN [ok |-> FALSE, node |-> node]
        ELSE [ok |-> TRUE,
              node |-> [node EXCEPT !.entries = Slice(node.entries, start_idx, end_idx)]]

\* The result is [ok, node]; ok is FALSE when &index[start_idx..end_idx] is
\* out of order (a panic).
RECURSIVE IndexedSpanFilter_trim_to_timeframe(_, _, _)
IndexedSpanFilter_trim_to_timeframe(node, start, end) ==
    CASE node.type = "Single" -> Single_trim_to_timeframe(node, start, end)
      [] node.type = "Stratified" -> Stratified_trim_to_timeframe(node, start, end)
      [] node.type \in {"And", "Or"} ->
            LET trimmed == [i \in 1..Len(node.children) |->
                               IndexedSpanFilter_trim_to_timeframe(node.children[i],
                                                                   start, end)]
            IN  [ok |-> \A i \in 1..Len(trimmed) : trimmed[i].ok,
                 node |-> [node EXCEPT !.children =
                              [i \in 1..Len(trimmed) |-> trimmed[i].node]]]

(***************************************************************************)
(* SpanQuery and IndexedSpanFilterIterator.                                *)
(***************************************************************************)
SpanIter(filter, order, curr_key, start_key, end_key) ==
    [filter |-> filter, order |-> order, curr_key |-> curr_key,
     start_key |-> start_key, end_key |-> end_key]

\* IndexedSpanFilterIterator::new, first part: the predicates lowered,
\* simplified, built and stratified.  [ok, node]; ok is FALSE on a panic.
SpanPlan(query) ==
    LET stratify(built) ==
            IF built.type = "Panic" THEN [ok |-> FALSE, node |-> Panicked]
            ELSE [ok |-> TRUE, node |-> ensure_stratified(built)]
        lower(lowered) ==
            IF \E i \in 1..Len(lowered) : ~lowered[i].ok
            THEN [ok |-> FALSE, node |-> Panicked]
            ELSE stratify(IndexedSpanFilter_build(
                     BasicFilter_simplify(
                         BasicAnd([i \in 1..Len(lowered) |-> lowered[i].val]))))
    IN  lower([i \in 1..Len(query.filter) |->
                  BasicSpanFilter_from_predicate(query.filter[i])])

\* IndexedSpanFilterIterator::new, the match on (order, previous):
\* [ok, curr, start, end]; ok is FALSE when Timestamp::new(prev - 1) is None
SpanCursor(query) ==
    LET prev == query.previous IN
    CASE query.order = "Asc" /\ prev # None /\ prev >= query.start ->
            [ok |-> TRUE, curr |-> SaturatingAdd1(prev), start |-> SaturatingAdd1(prev),
             end |-> query.end]
      [] query.order = "Asc" /\ prev # None /\ prev < query.start ->
            [ok |-> TRUE, curr |-> SaturatingAdd1(prev), start |-> query.start,
             end |-> query.end]
      [] query.order = "Asc" /\ prev = None ->
            [ok |-> TRUE, curr |-> TimestampMIN, start |-> query.start, end |-> query.end]
      [] query.order = "Desc" /\ prev # None /\ prev > query.start ->
            [ok |-> NewPred(prev) # None, curr |-> NewPred(prev), start |-> query.start,
             end |-> NewPred(prev)]
      [] query.order = "Desc" /\ prev # None /\ prev <= query.start ->
            [ok |-> NewPred(prev) # None, curr |-> NewPred(prev), start |-> query.start,
             end |-> query.start]
      [] query.order = "Desc" /\ prev = None ->
            [ok |-> TRUE, curr |-> query.end, start |-> query.start, end |-> query.end]

\* IndexedSpanFilterIterator::new.  The result is [ok, iter]; ok is FALSE
\* when the construction panics.
IndexedSpanFilterIterator_new(query) ==
    LET finish(plan, cursor, trimmed) ==
            IF ~plan.ok \/ ~cursor.ok \/ ~trimmed.ok THEN [ok |-> FALSE, iter |-> NoSpanIter]
            ELSE [ok |-> TRUE,
                  iter |-> SpanIter(optimize(trimmed.node), query.order, cursor.curr,
                                    cursor.start,
                                    IF query.order = "Asc" THEN cursor.end
                                    ELSE TimestampMIN)]
        trim(plan, cursor) ==
            finish(plan, cursor,
                   IndexedSpanFilter_trim_to_timeframe(plan.node, cursor.start, cursor.end))
    IN  trim(SpanPlan(query), SpanCursor(query))

\* IndexedSpanFilterIterator::next.  The result is [status, key, iter].
IndexedSpanFilterIterator_next(iter) ==
    LET advance(r) ==
            IF r.status # "some"
            THEN [status |-> r.status, key |-> None, iter |-> [iter EXCEPT !.filter = r.node]]
            ELSE IF iter.order = "Asc"
                 THEN [status |-> "some", key |-> r.key,
                       iter |-> [iter EXCEPT !.filter = r.node,
                                             !.curr_key = SaturatingAdd1(r.key)]]
            ELSE IF NewPred(r.key) = None
                 THEN [status |-> "panic", key |-> None,
                       iter |-> [iter EXCEPT !.filter = r.node]]
            ELSE [status |-> "some", key |-> r.key,
                  iter |-> [iter EXCEPT !.filter = r.node, !.curr_key = NewPred(r.key)]]
    IN  advance(IndexedSpanFilter_search(iter.filter, iter.curr_key, iter.order,
                                         iter.end_key, iter.start_key))

(***************************************************************************)
(* The span side as a state machine: spans are created in key order and    *)
(* closed at a later time, then a query is built over the store and its    *)
(* iterator is run.                                                        *)
(***************************************************************************)
\* the most spans a store holds
MaxSpans == 3

\* the levels a created span may have
SpanLevels == {LevelInfo, LevelError}

PDuration(op, value) == FilterPredicate("None", "duration", op, value)

\* the predicate lists a span query may carry
SpanFilters ==
    { <<>>,
      <<PLevel("None", <<"I", "N", "F", "O">>)>>,
      <<PDuration("Gt", <<"1">>)>>,
      <<PDuration("Gt", <<"2">>)>>,
      <<PDuration("Gt", <<"3">>)>>,
      <<PDuration("Lt", <<"2">>)>>,
      <<PDuration("Lt", <<"3">>)>>,
      <<PDuration("Lt", <<"4">>)>>,
      <<PLevel("None", <<"I", "N", "F", "O">>), PDuration("Gt", <<"1">>)>> }

InitSpan ==
    /\ instances = WorldInstances
    /\ spans = <<>>
    /\ events = <<>>
    /\ equery = NoQuery
    /\ eiter = NoEventIter
    /\ eout = <<>>
    /\ epc = "idle"
    /\ squery = NoQuery
    /\ siter = NoSpanIter
    /\ sout = <<>>
    /\ spc = "idle"
    /\ probe = NoProbe
    /\ IoIdle

\* insert_span_event, Create: the span is stored under a key above every stored key
CreateSpan ==
    /\ spc = "idle"
    /\ Cardinality(DOMAIN spans) < MaxSpans
    /\ \E ts \in Timestamps, level \in SpanLevels :
          /\ \A k \in DOMAIN spans : k < ts
          /\ spans' = [k \in DOMAIN spans \cup {ts} |->
                          IF k = ts
                          THEN Span(2, ts, ts, None, None, level, Str("a"), {})
                          ELSE spans[k]]
    /\ UNCHANGED <<instances, events, equery, eiter, eout, epc,
                   squery, siter, sout, spc, probe>>
    /\ UNCHANGED ioVars

\* insert_span_event, Close: closed_at is set, to a time after created_at
CloseSpan ==
    /\ spc = "idle"
    /\ \E k \in DOMAIN spans, ts \in Timestamps :
          /\ spans[k].closed_at = None
          /\ ts > k
          /\ spans' = [spans EXCEPT ![k].closed_at = ts]
    /\ UNCHANGED <<instances, events, equery, eiter, eout, epc,
                   squery, siter, sout, spc, probe>>
    /\ UNCHANGED ioVars

\* query_span: IndexedSpanFilterIterator::new(query, engine)
NewSpanQuery ==
    /\ spc = "idle"
    /\ \E f \in SpanFilters, order \in Orders, start \in Timestamps,
          end \in Timestamps, previous \in {None} \cup Timestamps :
          /\ start <= end
          /\ LET begin(query, made) ==
                     /\ squery' = query
                     /\ siter' = made.iter
                     /\ spc' = IF made.ok THEN "iter" ELSE "panic"
             IN  begin(Query(f, order, 0, start, end, previous),
                       IndexedSpanFilterIterator_new(
                           Query(f, order, 0, start, end, previous)))
    /\ UNCHANGED <<instances, spans, events, equery, eiter, eout, epc, sout, probe>>
    /\ UNCHANGED ioVars

\* one call of IndexedSpanFilterIterator::next.  A run that has yielded more
\* keys than there are spans is not followed further.
SpanNext ==
    /\ spc = "iter"
    /\ Len(sout) <= Cardinality(DOMAIN spans)
    /\ LET step(r) ==
               /\ siter' = r.iter
               /\ sout' = IF r.status = "some" THEN Append(sout, r.key) ELSE sout
               /\ spc' = CASE r.status = "some" -> "iter"
                           [] r.status = "none" -> "done"
                           [] OTHER -> r.status
       IN  step(IndexedSpanFilterIterator_next(siter))
    /\ UNCHANGED <<instances, spans, events, equery, eiter, eout, epc, squery, probe>>
    /\ UNCHANGED ioVars

NextSpan == CreateSpan \/ CloseSpan \/ NewSpanQuery \/ SpanNext

SpecSpan == InitSpan /\ [][NextSpan]_vars

(***************************************************************************)
(* What a span query is meant to select.                                   *)
(***************************************************************************)
\* the span's lifetime [created_at, closed_at] intersects the window
SpanAlive(k, start, end) ==
    k <= end /\ (spans[k].closed_at = None \/ spans[k].closed_at >= start)

\* the span satisfies one predicate (level or duration); an open span has
\* infinite duration
SpanSatisfies(predicate, k) ==
    IF predicate.property = "level"
    THEN spans[k].level = ParseLevel(predicate.value).val
    ELSE LET m == ParseU64(predicate.value).val
             d == SpanDuration(spans[k])
         IN  IF predicate.value_operator = "Gt" THEN ~d.some \/ d.val > m
             ELSE d.some /\ d.val < m

SpanFilterHolds(f, k) == \A i \in 1..Len(f) : SpanSatisfies(f[i], k)

HasDurationPredicate(f) == \E i \in 1..Len(f) : f[i].property = "duration"

\* the spans a query over [start, end] with this predicate list must yield
SpansExpected(f, start, end) ==
    {k \in DOMAIN spans : SpanAlive(k, start, end) /\ SpanFilterHolds(f, k)}

\* the run of the span iterator is over: it ended, failed, or was cut
SpanRunOver ==
    \/ spc \in {"done", "panic", "hang"}
    \/ spc = "iter" /\ Len(sout) > Cardinality(DOMAIN spans)

\* the iterator run to exhaustion: [status, out].  A run that has yielded more
\* keys than there are spans is cut (status "over").
RECURSIVE SpanRun(_, _)
SpanRun(iter, out) ==
    IF Len(out) > Cardinality(DOMAIN spans) THEN [status |-> "over", out |-> out]
    ELSE LET continue(r) ==
                 IF r.status = "some" THEN SpanRun(r.iter, Append(out, r.key))
                 ELSE [status |-> IF r.status = "none" THEN "done" ELSE r.status,
                       out |-> out]
         IN  continue(IndexedSpanFilterIterator_next(iter))

\* the unpaginated run of a query
SpanUnpaginated(query) ==
    LET run(made) ==
            IF made.ok THEN SpanRun(made.iter, <<>>)
            ELSE [status |-> "panic", out |-> <<>>]
    IN  run(IndexedSpanFilterIterator_new([query EXCEPT !.previous = None]))

(***************************************************************************)
(* C5: span pagination.                                                    *)
(***************************************************************************)
\* C5 (as claimed): when previous is a key of the unpaginated run (the last
\* key of an earlier page), the page ends, does not yield previous again,
\* and continues the unpaginated run exactly where previous left it.
C5_SpanPagination ==
    (SpanRunOver /\ squery.previous # None)
    => LET continues(whole) ==
               squery.previous \in SeqToSet(whole.out)
               => /\ spc = "done"
                  /\ squery.previous \notin SeqToSet(sout)
                  /\ whole.status = "done"
                     => sout = SeqAfter(whole.out, squery.previous)
       IN  continues(SpanUnpaginated(squery))

\* the same statement for stores that stay off the two extreme keys
C5_Interior ==
    (TimestampMIN \notin DOMAIN spans /\ TimestampMAX \notin DOMAIN spans)
    => C5_SpanPagination

(***************************************************************************)
(* C6: a span is yielded iff it is alive in the window.                    *)
(***************************************************************************)
\* C6 (as claimed): a span query without duration predicate that ran to its
\* end has yielded exactly the spans that satisfy the filter and whose
\* lifetime intersects the window; a span closed exactly at start is one.
C6_YieldedIffAlive ==
    (spc = "done" /\ squery.previous = None /\ ~HasDurationPredicate(squery.filter))
    => SeqToSet(sout) = SpansExpected(squery.filter, squery.start, squery.end)

\* what the code yields instead: a span created before start is yielded only
\* when it is open or closed strictly after start
C6_ClosedAtStartSkipped ==
    (spc = "done" /\ squery.previous = None /\ ~HasDurationPredicate(squery.filter))
    => SeqToSet(sout) =
           {k \in SpansExpected(squery.filter, squery.start, squery.end) :
               ~(k < squery.start /\ spans[k].closed_at = squery.start)}

(***************************************************************************)
(* C7: duration filters on closed spans.                                   *)
(***************************************************************************)
\* the query is a single duration predicate and ran to its end
DurationRunDone ==
    /\ spc = "done"
    /\ squery.previous = None
    /\ Len(squery.filter) = 1
    /\ squery.filter[1].property = "duration"

\* C7 (as claimed): a closed span created in the window is yielded by
\* duration > m iff its duration d > m, and by duration < m iff d < m
C7_DurationFilterExact ==
    DurationRunDone
    => \A k \in DOMAIN spans :
          (spans[k].closed_at # None /\ squery.start <= k /\ k <= squery.end)
          => (k \in SeqToSet(sout) <=> SpanSatisfies(squery.filter[1], k))

\* what the code does instead: duration > m also yields the spans whose
\* duration equals m when m is the start of their band
C7_BandStartAccepted ==
    DurationRunDone
    => \A k \in DOMAIN spans :
          (spans[k].closed_at # None /\ squery.start <= k /\ k <= squery.end)
          => (k \in SeqToSet(sout) <=>
                 \/ SpanSatisfies(squery.filter[1], k)
                 \/ /\ squery.filter[1].value_operator = "Gt"
                    /\ SpanDuration(spans[k]).val = ParseU64(squery.filter[1].value).val
                    /\ SpanDuration(spans[k]).val = BandRange(BandOf(spans[k]))[1])

(***************************************************************************)
(* C8: duration filters on open spans.                                     *)
(***************************************************************************)
\* C8 (as claimed): an open span created in the window is yielded by
\* duration > m and is not yielded by duration < m, whatever m
C8_OpenSpanInfinite ==
    DurationRunDone
    => \A k \in DOMAIN spans :
          (spans[k].closed_at = None /\ squery.start <= k /\ k <= squery.end)
          => (k \in SeqToSet(sout) <=> squery.filter[1].value_operator = "Gt")

\* what the code does instead: an open span is yielded exactly when the top
\* band is accepted outright
C8_OpenSpanByTopBand ==
    DurationRunDone
    => \A k \in DOMAIN spans :
          (spans[k].closed_at = None /\ squery.start <= k /\ k <= squery.end)
          => (k \in SeqToSet(sout) <=>
                 matches_duration_range(squery.filter[1].value_operator,
                                        ParseU64(squery.filter[1].value).val,
                                        BandRange(BandCount - 1)) = "true")

(***************************************************************************)
(* C9: trim_to_timeframe on span plans.                                    *)
(***************************************************************************)
\* every key cut from a leaf is out of the window's reach: from a Stratified
\* slice of range [lo, hi) it was created before start - hi or after end, from
\* a Single slice it was created after end
RECURSIVE TrimCutsOnlyDead(_, _, _, _)
TrimCutsOnlyDead(node, trimmed, start, end) ==
    CASE node.type = "Single" ->
            \A k \in SeqToSet(node.entries) \ SeqToSet(trimmed.entries) : k > end
      [] node.type = "Stratified" ->
            \A k \in SeqToSet(node.entries) \ SeqToSet(trimmed.entries) :
                \/ k > end
                \/ /\ k < start - node.range[2]
                   /\ spans[k].closed_at # None
                   /\ spans[k].closed_at < start
      [] OTHER ->
            /\ Len(trimmed.children) = Len(node.children)
            /\ \A i \in 1..Len(node.children) :
                  TrimCutsOnlyDead(node.children[i], trimmed.children[i], start, end)

\* some Stratified slice lost a key on its lower side
RECURSIVE TrimCutsBelow(_, _, _)
TrimCutsBelow(node, trimmed, start) ==
    CASE node.type = "Single" -> FALSE
      [] node.type = "Stratified" ->
            \E k \in SeqToSet(node.entries) \ SeqToSet(trimmed.entries) : k < start
      [] OTHER ->
            \E i \in 1..Len(node.children) :
                TrimCutsBelow(node.children[i], trimmed.children[i], start)

\* the iterator of the query over the plan as it is before trim_to_timeframe
SpanIterUntrimmed(query) ==
    LET make(plan, cursor) ==
            SpanIter(optimize(plan.node), query.order, cursor.curr, cursor.start,
                     IF query.order = "Asc" THEN cursor.end ELSE TimestampMIN)
    IN  make(SpanPlan(query), SpanCursor(query))

\* the query's plan before and after trim_to_timeframe: [node, trimmed, start, end]
SpanTrimOf(query) ==
    LET trim(plan, cursor) ==
            [node |-> plan.node,
             trimmed |-> IndexedSpanFilter_trim_to_timeframe(plan.node, cursor.start,
                                                             cursor.end).node,
             start |-> cursor.start, end |-> cursor.end]
    IN  trim(SpanPlan(query), SpanCursor(query))

\* the query's iterator was built (nothing panicked) and its run is over
SpanBuiltRunOver ==
    /\ SpanRunOver
    /\ siter # NoSpanIter

\* C9 (as claimed): trim_to_timeframe cuts from a span plan only keys that
\* cannot be alive in the window, and the run over the trimmed plan has yielded
\* exactly the keys the run over the untrimmed plan yields.
C9_TrimKeepsAliveSpans ==
    SpanBuiltRunOver
    => /\ LET dead(t) == TrimCutsOnlyDead(t.node, t.trimmed, t.start, t.end)
          IN  dead(SpanTrimOf(squery))
       /\ sout = SpanRun(SpanIterUntrimmed(squery), <<>>).out

\* the first half alone: every key cut is out of the window's reach
C9_CutKeysAreDead ==
    SpanBuiltRunOver
    => LET dead(t) == TrimCutsOnlyDead(t.node, t.trimmed, t.start, t.end)
       IN  dead(SpanTrimOf(squery))

\* the second half fails only where the run over the untrimmed plan fails
C9_SameKeysUnlessPanic ==
    SpanBuiltRunOver
    => LET same(whole) == whole.status = "panic" \/ sout = whole.out
       IN  same(SpanRun(SpanIterUntrimmed(squery), <<>>))

\* a run that ended after yielding a span, over a plan from which
\* trim_to_timeframe had cut a key below the window
C9_CutBelowReached ==
    /\ spc = "done"
    /\ sout # <<>>
    /\ LET below(t) == TrimCutsBelow(t.node, t.trimmed, t.start)
       IN  below(SpanTrimOf(squery))

(***************************************************************************)
(* C11: level predicates.                                                  *)
(***************************************************************************)
\* the text of a level
LevelText(l) ==
    CASE l = LevelTrace -> <<"T", "R", "A", "C", "E">>
      [] l = LevelDebug -> <<"D", "E", "B", "U", "G">>
      [] l = LevelInfo -> <<"I", "N", "F", "O">>
      [] l = LevelWarn -> <<"W", "A", "R", "N">>
      [] l = LevelError -> <<"E", "R", "R", "O", "R">>

\* Level(l), ..., Level(Error) in ascending order
LevelsFrom(l) == [i \in 1..(LevelError - l + 1) |-> BasicLevel(l + i - 1)]

\* level >= L lowers to the Or over L..Error (Level(Error) alone after
\* simplify when L is ERROR), level L to Level(L); for events and for spans
LevelLoweringShape ==
    \A l \in Levels :
        /\ BasicEventFilter_from_predicate(PLevel("Gte", LevelText(l)))
               = Ok(BasicOr(LevelsFrom(l)))
        /\ BasicSpanFilter_from_predicate(PLevel("Gte", LevelText(l)))
               = Ok(BasicOr(LevelsFrom(l)))
        /\ BasicFilter_simplify(
               BasicEventFilter_from_predicate(PLevel("Gte", LevelText(l))).val)
               = IF l = LevelError THEN BasicLevel(LevelError)
                 ELSE BasicOr(LevelsFrom(l))
        /\ BasicEventFilter_from_predicate(PLevel("None", LevelText(l)))
               = Ok(BasicLevel(l))
        /\ BasicSpanFilter_from_predicate(PLevel("None", LevelText(l)))
               = Ok(BasicLevel(l))

\* the query's filter is one level predicate
LevelQuery(f) == Len(f) = 1 /\ f[1].property = "level"

\* the events of the window whose level the level predicate asks for
EventsOfLevel(f, start, end) ==
    {k \in DOMAIN events :
        /\ start <= k /\ k <= end
        /\ IF f[1].value_operator = "Gte"
           THEN events[k].level >= ParseLevel(f[1].value).val
           ELSE events[k].level = ParseLevel(f[1].value).val}

\* C11 (as claimed): level >= L lowers to the Or over the levels L..Error,
\* and an event query whose filter is one level predicate ends having
\* yielded exactly the events of the window at level L or above (exactly at
\* level L when the predicate has no operator).
C11_LevelAtLeast ==
    /\ LevelLoweringShape
    /\ (epc \in {"iter", "done", "panic", "hang"} /\ equery.previous = None
           /\ LevelQuery(equery.filter))
       => /\ epc \notin {"panic", "hang"}
          /\ SeqToSet(eout) \subseteq
                 EventsOfLevel(equery.filter, equery.start, equery.end)
          /\ epc = "done" =>
                 SeqToSet(eout) = EventsOfLevel(equery.filter, equery.start, equery.end)

\* the same statement for stores that stay off the two extreme keys
C11_Interior ==
    (TimestampMIN \notin DOMAIN events /\ TimestampMAX \notin DOMAIN events)
    => C11_LevelAtLeast

\* the lowering and the selection alone: every run that ends has yielded
\* exactly the events of the asked levels
C11_CompletedRuns ==
    /\ LevelLoweringShape
    /\ (epc = "done" /\ equery.previous = None /\ LevelQuery(equery.filter))
       => SeqToSet(eout) = EventsOfLevel(equery.filter, equery.start, equery.end)

(***************************************************************************)
(* validate: the check the filter parser applies to one predicate, for     *)
(* events, spans and instances.  The result is Ok(predicate with its       *)
(* property kind resolved) or Err(InputError).                             *)
(***************************************************************************)
\* CheckDurationOperator that lets >= and <= through as well
CheckDurationOperator_with_inclusive(op) ==
    IF op \in {"Gt", "Gte", "Lt", "Lte"} THEN "None"
    ELSE IF op = "None" THEN "MissingDurationOperator"
    ELSE "InvalidDurationOperator"

\* match predicate.value_operator of a duration predicate
CheckDurationOperator(op) ==
    IF op \in {"Gt", "Lt"} THEN "None"
    ELSE IF op = "None" THEN "MissingDurationOperator"
    ELSE "InvalidDurationOperator"

\* match predicate.value_operator of a created, connected or disconnected predicate
CheckCreatedOperator(op) ==
    IF op \in {"Gt", "Gte", "Lt", "Lte"} THEN "None"
    ELSE IF op = "None" THEN "MissingCreatedOperator"
    ELSE "InvalidCreatedOperator"

Validated_as_given(predicate, property_kind) == Ok(predicate)

\* Ok(FilterPredicate { property_kind: Some(property_kind), ..predicate })
Validated(predicate, property_kind) ==
    Ok([predicate EXCEPT !.property_kind = property_kind])

\* BasicEventFilter::validate
BasicEventFilter_validate(predicate) ==
    LET property_kind == EventPropertyKind(predicate)
        op == predicate.value_operator
    IN
    IF property_kind = "Inherent" /\ predicate.property = "level" THEN
        IF ~ParseLevel(predicate.value).ok THEN Err("InvalidLevelValue")
        ELSE IF op \notin {"Gte", "None"} THEN Err("InvalidLevelOperator")
        ELSE Validated(predicate, property_kind)
    ELSE IF property_kind = "Inherent" /\ predicate.property = "instance" THEN
        IF ~ParseU64(predicate.value).ok THEN Err("InvalidInstanceValue")
        ELSE IF op # "None" THEN Err("InvalidInstanceOperator")
        ELSE Validated(predicate, property_kind)
    ELSE IF property_kind = "Inherent" /\ predicate.property = "stack" THEN
        IF ~parse_full_span_id(predicate.value).ok THEN Err("InvalidStackValue")
        ELSE IF op # "None" THEN Err("InvalidStackOperator")
        ELSE Validated(predicate, property_kind)
    ELSE IF property_kind = "Inherent" THEN Err("InvalidInherentProperty")
    ELSE IF op # "None" THEN Err("InvalidAttributeOperator")
         ELSE Validated(predicate, property_kind)

\* BasicSpanFilter::validate
BasicSpanFilter_validate(predicate) ==
    LET property_kind == SpanPropertyKind(predicate)
        op == predicate.value_operator
    IN
    IF property_kind = "Inherent" /\ predicate.property = "level" THEN
        IF ~ParseLevel(predicate.value).ok THEN Err("InvalidLevelValue")
        ELSE IF op \notin {"Gte", "None"} THEN Err("InvalidLevelOperator")
        ELSE Validated(predicate, property_kind)
    ELSE IF property_kind = "Inherent" /\ predicate.property = "duration" THEN
        IF ~ParseU64(predicate.value).ok THEN Err("InvalidDurationValue")
        ELSE IF CheckDurationOperator(op) # "None" THEN Err(CheckDurationOperator(op))
        ELSE Validated(predicate, property_kind)
    ELSE IF property_kind = "Inherent" /\ predicate.property = "name" THEN
        IF op # "None" THEN Err("InvalidNameOperator")
        ELSE Validated(predicate, property_kind)
    ELSE IF property_kind = "Inherent" /\ predicate.property = "instance" THEN
        \* the value is parsed; the operator is not looked at
        IF ~ParseU64(predicate.value).ok THEN Err("InvalidInstanceValue")
        ELSE Validated(predicate, property_kind)
    ELSE IF property_kind = "Inherent" /\ predicate.property = "created" THEN
        IF ~ParseU64(predicate.value).ok \/ ParseU64(predicate.value).val = 0
        THEN Err("InvalidCreatedValue")
        ELSE IF CheckCreatedOperator(op) # "None" THEN Err(CheckCreatedOperator(op))
        ELSE Validated(predicate, property_kind)
    ELSE IF property_kind = "Inherent" /\ predicate.property = "parent" THEN
        IF predicate.value # <<"n", "o", "n", "e">> THEN Err("InvalidParentValue")
        ELSE IF op # "None" THEN Err("InvalidParentOperator")
        ELSE Validated(predicate, property_kind)
    ELSE IF property_kind = "Inherent" /\ predicate.property = "stack" THEN
        IF ~parse_full_span_id(predicate.value).ok THEN Err("InvalidStackValue")
        ELSE IF op # "None" THEN Err("InvalidStackOperator")
        ELSE Validated(predicate, property_kind)
    ELSE IF property_kind = "Inherent" THEN Err("InvalidInherentProperty")
    ELSE IF op # "None" THEN Err("InvalidAttributeOperator")
         ELSE Validated(predicate, property_kind)

(***************************************************************************)
(* BasicInstanceFilter: Duration | Connected | Disconnected | Attribute |   *)
(* And | Or                                                                *)
(***************************************************************************)
BasicConnected(op, at) == BasicFilter("Connected", 0, None, "", <<>>, op, at, <<>>)
BasicDisconnected(op, at) == BasicFilter("Disconnected", 0, None, "", <<>>, op, at, <<>>)

\* the property kind a predicate resolves to for instances
InstancePropertyKind(predicate) ==
    IF predicate.property_kind # "None" THEN predicate.property_kind
    ELSE IF predicate.property \in {"duration", "connected", "disconnected"}
         THEN "Inherent"
         ELSE "Attribute"

\* BasicInstanceFilter::validate
BasicInstanceFilter_validate(predicate) ==
    LET property_kind == InstancePropertyKind(predicate)
        op == predicate.value_operator
    IN
    IF property_kind = "Inherent" /\ predicate.property = "duration" THEN
        IF ~ParseU64(predicate.value).ok THEN Err("InvalidDurationValue")
        ELSE IF CheckDurationOperator(op) # "None" THEN Err(CheckDurationOperator(op))
        ELSE Validated(predicate, property_kind)
    ELSE IF property_kind = "Inherent"
            /\ predicate.property \in {"connected", "disconnected"} THEN
        IF ~ParseU64(predicate.value).ok \/ ParseU64(predicate.value).val = 0
        THEN Err("InvalidCreatedValue")
        ELSE IF CheckCreatedOperator(op) # "None" THEN Err(CheckCreatedOperator(op))
        ELSE Validated(predicate, property_kind)
    ELSE IF property_kind = "Inherent" THEN Err("InvalidInherentProperty")
    ELSE IF op # "None" THEN Err("InvalidAttributeOperator")
         ELSE Validated(predicate, property_kind)

\* BasicInstanceFilter::from_predicate
BasicInstanceFilter_from_predicate(predicate) ==
    LET property_kind == InstancePropertyKind(predicate)
        op == predicate.value_operator
    IN
    IF property_kind = "Inherent" /\ predicate.property = "duration" THEN
        LET measure == ParseU64(predicate.value) IN
        IF ~measure.ok THEN Err("InvalidDurationValue")
        ELSE IF op = "Gt" THEN Ok(BasicDuration("Gt", measure.val))
        ELSE IF op = "Lt" THEN Ok(BasicDuration("Lt", measure.val))
        ELSE IF op = "None" THEN Err("MissingDurationOperator")
        ELSE Err("InvalidDurationOperator")
    ELSE IF property_kind = "Inherent"
            /\ predicate.property \in {"connected", "disconnected"} THEN
        LET at == ParseU64(predicate.value) IN
        IF ~at.ok \/ at.val = 0 THEN Err("InvalidCreatedValue")
        ELSE IF op \in {"Gte", "Gt", "Lte", "Lt"}
             THEN Ok(IF predicate.property = "connected"
                     THEN BasicConnected(op, at.val)
                     ELSE BasicDisconnected(op, at.val))
        ELSE IF op = "None" THEN Err("MissingCreatedOperator")
        ELSE Err("InvalidCreatedOperator")
    ELSE IF property_kind = "Inherent" THEN Err("InvalidInherentProperty")
    ELSE IF op # "None" THEN Err("InvalidAttributeOperator")
         ELSE Ok(BasicAttribute(predicate.property, predicate.value))

(***************************************************************************)
(* The filter parser's checks as a state machine: a predicate is handed to *)
(* validate or to from_predicate of one entity kind.                       *)
(***************************************************************************)
Entities == {"event", "span", "instance"}

PropertyKinds == {"None", "Inherent", "Attribute"}

ValueOperators == {"None", "Gt", "Gte", "Lt", "Lte", "Eq", "Ne"}

\* the property names of the three entity kinds, and one that none reserves
PropertyNames ==
    {"level", "instance", "stack", "duration", "name", "created", "parent",
     "connected", "disconnected", "x"}

\* values: a level, a number, zero, a full span id, "none", and text that is none of these
PredicateValues ==
    { <<"I", "N", "F", "O">>, <<"7">>, <<"0">>, <<"7", "-", "1">>,
      <<"n", "o", "n", "e">>, <<"y">>, <<>> }

Validate(entity, predicate) ==
    CASE entity = "event" -> BasicEventFilter_validate(predicate)
      [] entity = "span" -> BasicSpanFilter_validate(predicate)
      [] entity = "instance" -> BasicInstanceFilter_validate(predicate)

FromPredicate(entity, predicate) ==
    CASE entity = "event" -> BasicEventFilter_from_predicate(predicate)
      [] entity = "span" -> BasicSpanFilter_from_predicate(predicate)
      [] entity = "instance" -> BasicInstanceFilter_from_predicate(predicate)

\* no query is running and nothing has been stored for one
QueryIdle ==
    /\ instances = WorldInstances
    /\ spans = <<>>
    /\ events = <<>>
    /\ equery = NoQuery
    /\ eiter = NoEventIter
    /\ eout = <<>>
    /\ epc = "idle"
    /\ squery = NoQuery
    /\ siter = NoSpanIter
    /\ sout = <<>>
    /\ spc = "idle"

\* a predicate as FilterPredicate::parse hands it over, for one entity kind
InitPredicate ==
    /\ QueryIdle
    /\ IoIdle
    /\ \E entity \in Entities, kind \in PropertyKinds, property \in PropertyNames,
          op \in ValueOperators, value \in PredicateValues :
          probe = [op |-> "input", entity |-> entity,
                   predicate |-> FilterPredicate(kind, property, op, value),
                   result |-> Err("None")]

\* parse_event_filter / parse_span_filter / parse_instance_filter on the predicate
ValidatePredicate ==
    /\ probe.op = "input"
    /\ probe' = [probe EXCEPT !.op = "validate",
                              !.result = Validate(probe.entity, probe.predicate)]
    /\ UNCHANGED <<instances, spans, events, equery, eiter, eout, epc,
                   squery, siter, sout, spc>>
    /\ UNCHANGED ioVars

\* the lowering of the predicate when a query is built
LowerPredicate ==
    /\ probe.op = "input"
    /\ probe' = [probe EXCEPT !.op = "from_predicate",
                              !.result = FromPredicate(probe.entity, probe.predicate)]
    /\ UNCHANGED <<instances, spans, events, equery, eiter, eout, epc,
                   squery, siter, sout, spc>>
    /\ UNCHANGED ioVars

\* validate on the predicate an earlier validate returned
ValidateAgain ==
    /\ probe.op = "validate"
    /\ probe.result.ok
    /\ probe' = [op |-> "validate_again", entity |-> probe.entity,
                 given |-> probe.predicate, predicate |-> probe.result.val,
                 result |-> Validate(probe.entity, probe.result.val)]
    /\ UNCHANGED <<instances, spans, events, equery, eiter, eout, epc,
                   squery, siter, sout, spc>>
    /\ UNCHANGED ioVars

NextPredicate == ValidatePredicate \/ LowerPredicate \/ ValidateAgain

SpecPredicate == InitPredicate /\ [][NextPredicate]_vars

(***************************************************************************)
(* C12  Property-kind resolution.                                          *)
(***************************************************************************)
\* the names each entity kind reserves, as the specification lists them
ReservedNames(entity) ==
    CASE entity = "event" -> {"level", "instance", "stack"}
      [] entity = "span" -> {"level", "instance", "stack", "duration", "name",
                             "created", "parent"}
      [] entity = "instance" -> {"duration", "connected", "disconnected"}

\* the kind the specification resolves a predicate to
ResolvedKind(entity, predicate) ==
    IF predicate.property_kind # "None" THEN predicate.property_kind
    ELSE IF predicate.property \in ReservedNames(entity) THEN "Inherent"
         ELSE "Attribute"

ProbeIsPredicateCall == probe.op \in {"validate", "from_predicate"}

\* C12: in validate and in from_predicate of every entity kind an explicit
\* kind always wins and a predicate without one is Inherent exactly when its
\* property is a reserved name of that entity kind, Attribute otherwise:
\* validate hands back the predicate with that kind; a predicate of kind
\* Inherent on a name that is not reserved is InvalidInherentProperty; one on
\* a reserved name is never treated as an attribute; a predicate of kind
\* Attribute (also one forced on a reserved name) is an attribute equality
\* filter on that name, or InvalidAttributeOperator when it has an operator.
C12_PropertyKindResolution ==
    ProbeIsPredicateCall
    => LET resolves(kind, predicate, r) ==
               /\ (probe.op = "validate" /\ r.ok)
                  => r.val = [predicate EXCEPT !.property_kind = kind]
               /\ (kind = "Inherent"
                      /\ predicate.property \notin ReservedNames(probe.entity))
                  => r = Err("InvalidInherentProperty")
               /\ (kind = "Inherent"
                      /\ predicate.property \in ReservedNames(probe.entity))
                  => /\ r.err \notin {"InvalidInherentProperty",
                                      "InvalidAttributeOperator"}
                     /\ (probe.op = "from_predicate" /\ r.ok)
                        => r.val.type # "Attribute"
               /\ (kind = "Attribute" /\ predicate.value_operator # "None")
                  => r = Err("InvalidAttributeOperator")
               /\ (kind = "Attribute" /\ predicate.value_operator = "None")
                  => /\ r.ok
                     /\ probe.op = "from_predicate"
                        => r.val = BasicAttribute(predicate.property, predicate.value)
       IN  resolves(ResolvedKind(probe.entity, probe.predicate),
                    probe.predicate, probe.result)

\* a predicate forced to Attribute on a reserved name has been lowered to an
\* attribute equality filter
C12_ForcedAttributeOnReserved ==
    /\ probe.op = "from_predicate"
    /\ probe.entity = "span"
    /\ probe.predicate.property_kind = "Attribute"
    /\ probe.predicate.property = "parent"
    /\ probe.result = Ok(BasicAttribute("parent", probe.predicate.value))

(***************************************************************************)
(* C13  Predicates that take no operator.                                  *)
(***************************************************************************)
\* the properties that take no operator, per entity kind that accepts them
NoOperatorProperties(entity) ==
    CASE entity = "event" -> {"instance", "stack"}
      [] entity = "span" -> {"instance", "stack", "name", "parent"}
      [] entity = "instance" -> {}

\* the error kind of an operator on a property that takes none
OperatorErrorOf(kind, property) ==
    IF kind = "Attribute" THEN "InvalidAttributeOperator"
    ELSE CASE property = "instance" -> "InvalidInstanceOperator"
           [] property = "stack" -> "InvalidStackOperator"
           [] property = "name" -> "InvalidNameOperator"
           [] property = "parent" -> "InvalidParentOperator"

\* the value of a predicate is one its property accepts
ValueAccepted(kind, property, value) ==
    IF kind = "Attribute" THEN TRUE
    ELSE CASE property = "instance" -> ParseU64(value).ok
           [] property = "stack" -> parse_full_span_id(value).ok
           [] property = "name" -> TRUE
           [] property = "parent" -> value = <<"n", "o", "n", "e">>

\* the predicate under validation is a no-operator predicate that carries an operator
TakesNoOperator(entity, kind, predicate) ==
    /\ predicate.value_operator # "None"
    /\ \/ kind = "Attribute"
       \/ kind = "Inherent" /\ predicate.property \in NoOperatorProperties(entity)

\* C13: validate rejects a predicate on instance, stack, name, parent or an
\* attribute whenever it carries any operator, for every entity kind that
\* accepts the property, and when its value is acceptable the error is the
\* property's own: InvalidInstanceOperator, InvalidStackOperator,
\* InvalidNameOperator, InvalidParentOperator, InvalidAttributeOperator.
C13_NoOperatorPredicates ==
    probe.op = "validate"
    => LET rejects(kind, predicate, r) ==
               TakesNoOperator(probe.entity, kind, predicate)
               => /\ ~r.ok
                  /\ ValueAccepted(kind, predicate.property, predicate.value)
                     => r = Err(OperatorErrorOf(kind, predicate.property))
       IN  rejects(ResolvedKind(probe.entity, probe.predicate),
                   probe.predicate, probe.result)

\* the same for every predicate but instance on spans
C13_ExceptSpanInstance ==
    (probe.op = "validate"
        /\ ~(probe.entity = "span" /\ probe.predicate.property = "instance"))
    => C13_NoOperatorPredicates

\* from_predicate does reject what validate lets through
C13_LoweringRejects ==
    probe.op = "from_predicate"
    => LET rejects(kind, predicate, r) ==
               TakesNoOperator(probe.entity, kind, predicate)
               => /\ ~r.ok
                  /\ ValueAccepted(kind, predicate.property, predicate.value)
                     => r = Err(OperatorErrorOf(kind, predicate.property))
       IN  rejects(ResolvedKind(probe.entity, probe.predicate),
                   probe.predicate, probe.result)

(***************************************************************************)
(* C14  Predicates that require an operator.                               *)
(***************************************************************************)
\* the operator-requiring properties of an entity kind: duration, and the
\* timestamp properties created, connected, disconnected
DurationProperties(entity) ==
    IF entity \in {"span", "instance"} THEN {"duration"} ELSE {}

TimestampProperties(entity) ==
    CASE entity = "span" -> {"created"}
      [] entity = "instance" -> {"connected", "disconnected"}
      [] entity = "event" -> {}

\* what the specification says of a predicate whose value is fine or not and
\* whose operator is allowed, missing or another one
RequiredOperatorResult(valueOk, op, allowed, r, invalidValue, missing, invalid) ==
    /\ r.ok <=> (valueOk /\ op \in allowed)
    /\ ~valueOk => r = Err(invalidValue)
    /\ (valueOk /\ op = "None") => r = Err(missing)
    /\ (valueOk /\ op \notin allowed \cup {"None"}) => r = Err(invalid)

\* C14: a duration predicate (span and instance) is accepted exactly when its
\* value parses as u64 and its operator is < or >, and fails with
\* InvalidDurationValue, MissingDurationOperator or InvalidDurationOperator;
\* created (span), connected and disconnected (instance) are accepted exactly
\* when the value parses as a non-zero u64 and the operator is one of
\* <, <=, >, >=, and fail with InvalidCreatedValue, MissingCreatedOperator or
\* InvalidCreatedOperator; with both wrong the value error is reported.
C14_RequiredOperators ==
    (ProbeIsPredicateCall
        /\ ResolvedKind(probe.entity, probe.predicate) = "Inherent")
    => LET judged(predicate, r, n) ==
               /\ predicate.property \in DurationProperties(probe.entity)
                  => RequiredOperatorResult(n.ok, predicate.value_operator,
                         {"Lt", "Gt"}, r, "InvalidDurationValue",
                         "MissingDurationOperator", "InvalidDurationOperator")
               /\ predicate.property \in TimestampProperties(probe.entity)
                  => RequiredOperatorResult(n.ok /\ n.val # 0,
                         predicate.value_operator, {"Lt", "Lte", "Gt", "Gte"}, r,
                         "InvalidCreatedValue", "MissingCreatedOperator",
                         "InvalidCreatedOperator")
       IN  judged(probe.predicate, probe.result, ParseU64(probe.predicate.value))

\* a connected predicate with a zero value and the operator = has been
\* validated: the value error is the one reported
C14_ValueErrorFirst ==
    /\ probe.op = "validate"
    /\ probe.entity = "instance"
    /\ probe.predicate.property = "connected"
    /\ probe.predicate.property_kind = "None"
    /\ probe.predicate.value = <<"0">>
    /\ probe.predicate.value_operator = "Eq"
    /\ probe.result = Err("InvalidCreatedValue")

(***************************************************************************)
(* storage/file.rs: FileStorage, the four SQLite tables instances, spans,  *)
(* span_events and events.  Each table has PRIMARY KEY (key): a table is a *)
(* function from its keys to rows.  A row holds what *_to_params wrote;    *)
(* *_from_row rebuilds the record.                                         *)
(***************************************************************************)
\* u64 at a reduced width: ids are taken modulo IdModulus
IdModulus == 16

\* id as i64
AsI64(u) == IF u >= IdModulus \div 2 THEN u - IdModulus ELSE u

\* id as u64
AsU64(i) == i % IdModulus

\* the field names of the stored records, in the order of a BTreeMap
FieldNames == <<"k", "x">>

\* serde_json::to_string of a BTreeMap<String, String>: the pairs in key order
to_string(fields) ==
    LET present == SelectSeq(FieldNames, LAMBDA n : MapHas(fields, n))
    IN  [i \in 1..Len(present) |-> <<present[i], MapGet(fields, present[i])>>]

\* serde_json::from_str: the map of the pairs
from_str(json) == {json[i] : i \in 1..Len(json)}

\* BTreeMap::extend: the pairs of fields replace those of old with the same name
MapExtend(old, fields) ==
    {q \in old : ~MapHas(fields, q[1])} \cup fields

\* level.try_into(): Level from i32, [ok, val]
LevelTryFrom(i) ==
    IF i \in Levels THEN [ok |-> TRUE, val |-> i] ELSE [ok |-> FALSE, val |-> 0]

instance_to_params(instance) ==
    [key |-> instance.connected_at, id |-> AsI64(instance.id),
     disconnected_at |-> instance.disconnected_at,
     fields |-> to_string(instance.fields)]

instance_from_row(row) ==
    Instance(AsU64(row.id), row.key, row.disconnected_at, from_str(row.fields))

span_to_params(span) ==
    [key |-> span.created_at, instance_key |-> span.instance_key,
     id |-> AsI64(span.id), closed_at |-> span.closed_at,
     parent_id |-> span.parent_key, name |-> span.name, level |-> span.level,
     fields |-> to_string(span.fields)]

span_from_row(row) ==
    Span(row.instance_key, AsU64(row.id), row.key, row.closed_at, row.parent_id,
         LevelTryFrom(row.level).val, row.name, from_str(row.fields))

\* SpanEvent { instance_key, timestamp, span_key, kind }; kind is
\* [type, fields]: Create and Update carry data, Enter, Exit and Close none
SpanEvent(instance_key, timestamp, span_key, kind) ==
    [instance_key |-> instance_key, timestamp |-> timestamp,
     span_key |-> span_key, kind |-> kind]

SpanEventKind(type, fields) == [type |-> type, fields |-> fields]

span_event_to_params(span_event) ==
    [key |-> span_event.timestamp, instance_key |-> span_event.instance_key,
     span_key |-> span_event.span_key,
     kind |-> span_event.kind.type,
     data |-> IF span_event.kind.type \in {"create", "update"}
              THEN [some |-> TRUE, text |-> to_string(span_event.kind.fields)]
              ELSE [some |-> FALSE, text |-> <<>>]]

span_event_from_row(row) ==
    SpanEvent(row.instance_key, row.key, row.span_key,
              SpanEventKind(row.kind, IF row.kind \in {"create", "update"}
                                      THEN from_str(row.data.text) ELSE {}))

event_to_params(event) ==
    [key |-> event.timestamp, instance_key |-> event.instance_key,
     span_key |-> event.span_key, level |-> event.level,
     fields |-> to_string(event.fields)]

event_from_row(row) ==
    Event(row.instance_key, row.key, row.span_key, LevelTryFrom(row.level).val,
          from_str(row.fields))

\* the outcome of a storage call: the storage after it and what it returned
\* ("ok" for (), "some" with a record, "panic" when an unwrap failed)
Outcome(store, status, val) == [storage |-> store, status |-> status, val |-> val]

\* stmt.query_row((at,), ..): the row under the key, or
\* Err(QueryReturnedNoRows) when there is none
query_row(store, table, at) ==
    IF at \in DOMAIN store[table]
    THEN [ok |-> TRUE, row |-> store[table][at]]
    ELSE [ok |-> FALSE, row |-> <<>>]

\* Some(Boo::Owned(result.unwrap())): the unwrap panics on the Err
FileStorage_get_instance(store, at) ==
    IF query_row(store, "instances", at).ok
    THEN Outcome(store, "some", instance_from_row(query_row(store, "instances", at).row))
    ELSE Outcome(store, "panic", <<>>)

FileStorage_get_span(store, at) ==
    IF query_row(store, "spans", at).ok
    THEN Outcome(store, "some", span_from_row(query_row(store, "spans", at).row))
    ELSE Outcome(store, "panic", <<>>)

FileStorage_get_span_event(store, at) ==
    IF query_row(store, "span_events", at).ok
    THEN Outcome(store, "some",
                 span_event_from_row(query_row(store, "span_events", at).row))
    ELSE Outcome(store, "panic", <<>>)

FileStorage_get_event(store, at) ==
    IF query_row(store, "events", at).ok
    THEN Outcome(store, "some", event_from_row(query_row(store, "events", at).row))
    ELSE Outcome(store, "panic", <<>>)

\* INSERT INTO table VALUES (..) and unwrap: a row with the key of a stored
\* row violates the primary key, execute returns Err and the unwrap panics
FileStorage_insert(store, table, row) ==
    IF row.key \in DOMAIN store[table]
    THEN Outcome(store, "panic", <<>>)
    ELSE Outcome([store EXCEPT ![table] = (row.key :> row) @@ @], "ok", <<>>)

FileStorage_insert_instance(store, instance) ==
    FileStorage_insert(store, "instances", instance_to_params(instance))

FileStorage_insert_span(store, span) ==
    FileStorage_insert(store, "spans", span_to_params(span))

FileStorage_insert_span_event(store, span_event) ==
    FileStorage_insert(store, "span_events", span_event_to_params(span_event))

FileStorage_insert_event(store, event) ==
    FileStorage_insert(store, "events", event_to_params(event))

\* UPDATE instances SET disconnected_at = ?2 WHERE key = ?1
FileStorage_update_instance_disconnected(store, at, disconnected) ==
    IF at \in DOMAIN store.instances
    THEN Outcome([store EXCEPT !.instances[at].disconnected_at = disconnected],
                 "ok", <<>>)
    ELSE Outcome(store, "ok", <<>>)

\* UPDATE spans SET closed_at = ?2 WHERE key = ?1
FileStorage_update_span_closed(store, at, closed) ==
    IF at \in DOMAIN store.spans
    THEN Outcome([store EXCEPT !.spans[at].closed_at = closed], "ok", <<>>)
    ELSE Outcome(store, "ok", <<>>)

\* update_span_fields that writes the new fields in place of the stored ones
FileStorage_update_span_fields_replacing(store, at, fields) ==
    IF at \notin DOMAIN store.spans THEN Outcome(store, "panic", <<>>)
    ELSE Outcome([store EXCEPT !.spans[at].fields = to_string(fields)], "ok", <<>>)

\* SELECT the span (unwrap: panics without a row), extend its fields, UPDATE
FileStorage_update_span_fields(store, at, fields) ==
    IF ~query_row(store, "spans", at).ok THEN Outcome(store, "panic", <<>>)
    ELSE LET existing_fields == span_from_row(query_row(store, "spans", at).row).fields
         IN  Outcome([store EXCEPT !.spans[at].fields =
                          to_string(MapExtend(existing_fields, fields))],
                     "ok", <<>>)

(***************************************************************************)
(* The storage as a state machine: every call of the Storage trait on a    *)
(* FileStorage.  scall records the last call, its arguments, the storage   *)
(* before it and what it returned.                                         *)
(***************************************************************************)
\* the largest key a stored record has
MaxStoredKey == 2

\* the most rows the four tables hold together
MaxRows == 2

StoredKeys == TimestampMIN..MaxStoredKey

Rows(store) ==
    Cardinality(DOMAIN store.instances) + Cardinality(DOMAIN store.spans)
    + Cardinality(DOMAIN store.span_events) + Cardinality(DOMAIN store.events)

InstanceRecords ==
    { Instance(id, k, None, f) :
        id \in {7, 8}, k \in StoredKeys, f \in {{}, {<<"x", Str("a")>>}} }

SpanRecords ==
    { Span(1, 9, k, None, None, level, Str("s"), f) :
        k \in StoredKeys, level \in {LevelInfo, LevelError},
        f \in {{<<"k", Str("a")>>}, {<<"x", Str("a")>>}} }
    \cup { Span(1, 9, k, None, TimestampMIN, LevelInfo, Str("s"), {}) :
             k \in StoredKeys }

SpanEventRecords ==
    { SpanEvent(1, k, 1, kind) :
        k \in StoredKeys,
        kind \in {SpanEventKind("create", {<<"x", Str("a")>>}),
                  SpanEventKind("update", {<<"k", Str("a")>>}),
                  SpanEventKind("enter", {}), SpanEventKind("exit", {}),
                  SpanEventKind("close", {})} }

EventRecords ==
    { Event(1, k, None, level, {}) :
        k \in StoredKeys, level \in {LevelInfo, LevelError} }
    \cup { Event(1, k, TimestampMIN, LevelInfo, {}) : k \in StoredKeys }

\* the later timestamps an update writes
UpdateTimestamps == {MaxStoredKey + 1, MaxStoredKey + 2}

\* the fields an update merges
UpdateFields == { {<<"x", Str("b")>>} }

StorageCall(op, table, at, arg, outcome) ==
    /\ storage' = outcome.storage
    /\ scall' = [op |-> op, table |-> table, at |-> at, arg |-> arg,
                 before |-> storage, status |-> outcome.status,
                 val |-> outcome.val]
    /\ UNCHANGED queryVars
    /\ UNCHANGED <<conn, calls, live, listener>>

InitStorage ==
    /\ QueryIdle
    /\ probe = NoProbe
    /\ IoIdle

GetInstance ==
    \E at \in StoredKeys :
        StorageCall("get", "instances", at, <<>>, FileStorage_get_instance(storage, at))

GetSpan ==
    \E at \in StoredKeys :
        StorageCall("get", "spans", at, <<>>, FileStorage_get_span(storage, at))

GetSpanEvent ==
    \E at \in StoredKeys :
        StorageCall("get", "span_events", at, <<>>,
                    FileStorage_get_span_event(storage, at))

GetEvent ==
    \E at \in StoredKeys :
        StorageCall("get", "events", at, <<>>, FileStorage_get_event(storage, at))

\* an insert of a new key needs room; one of a stored key is always possible
HasRoom(table, key) == key \in DOMAIN storage[table] \/ Rows(storage) < MaxRows

InsertInstance ==
    \E instance \in InstanceRecords :
        /\ HasRoom("instances", instance.connected_at)
        /\ StorageCall("insert", "instances", instance.connected_at, instance,
                       FileStorage_insert_instance(storage, instance))

InsertSpan ==
    \E span \in SpanRecords :
        /\ HasRoom("spans", span.created_at)
        /\ StorageCall("insert", "spans", span.created_at, span,
                       FileStorage_insert_span(storage, span))

InsertSpanEvent ==
    \E span_event \in SpanEventRecords :
        /\ HasRoom("span_events", span_event.timestamp)
        /\ StorageCall("insert", "span_events", span_event.timestamp, span_event,
                       FileStorage_insert_span_event(storage, span_event))

InsertStoredEvent ==
    \E event \in EventRecords :
        /\ HasRoom("events", event.timestamp)
        /\ StorageCall("insert", "events", event.timestamp, event,
                       FileStorage_insert_event(storage, event))

UpdateInstanceDisconnected ==
    \E at \in StoredKeys, disconnected \in UpdateTimestamps :
        StorageCall("update_instance_disconnected", "instances", at, disconnected,
                    FileStorage_update_instance_disconnected(storage, at, disconnected))

UpdateSpanClosed ==
    \E at \in StoredKeys, closed \in UpdateTimestamps :
        StorageCall("update_span_closed", "spans", at, closed,
                    FileStorage_update_span_closed(storage, at, closed))

UpdateSpanFields ==
    \E at \in StoredKeys, fields \in UpdateFields :
        StorageCall("update_span_fields", "spans", at, fields,
                    FileStorage_update_span_fields(storage, at, fields))

NextStorage ==
    \/ GetInstance
    \/ GetSpan
    \/ GetSpanEvent
    \/ GetEvent
    \/ InsertInstance
    \/ InsertSpan
    \/ InsertSpanEvent
    \/ InsertStoredEvent
    \/ UpdateInstanceDisconnected
    \/ UpdateSpanClosed
    \/ UpdateSpanFields

SpecStorage == InitStorage /\ [][NextStorage]_vars

(***************************************************************************)
(* C15  Inserts are idempotent on the primary key.                         *)
(***************************************************************************)
\* the record a row of a table stands for
FromRow(table, row) ==
    CASE table = "instances" -> instance_from_row(row)
      [] table = "spans" -> span_from_row(row)
      [] table = "span_events" -> span_event_from_row(row)
      [] table = "events" -> event_from_row(row)

\* the record stored under a key
Stored(store, table, at) == FromRow(table, store[table][at])

\* the storage differs from store at most in the row of table under at
SameBut(store, table, at) ==
    /\ \A t \in DOMAIN storage : t # table => storage[t] = store[t]
    /\ DOMAIN storage[table] \ {at} = DOMAIN store[table] \ {at}
    /\ \A k \in DOMAIN store[table] \ {at} : storage[table][k] = store[table][k]

\* the first insert of a key stores the record
FirstInsertStores ==
    (scall.op = "insert" /\ scall.at \notin DOMAIN scall.before[scall.table])
    => /\ scall.status = "ok"
       /\ scall.at \in DOMAIN storage[scall.table]
       /\ Stored(storage, scall.table, scall.at) = scall.arg
       /\ SameBut(scall.before, scall.table, scall.at)

\* C15: an insert of a record whose primary key is already stored is a
\* no-op: it does not fail and the stored record stays the first one; the
\* first insert of a key stores the record.
C15_InsertIdempotent ==
    /\ FirstInsertStores
    /\ (scall.op = "insert" /\ scall.at \in DOMAIN scall.before[scall.table])
       => /\ scall.status = "ok"
          /\ storage = scall.before

\* the half that the code keeps: whatever a second insert does, the stored
\* record stays the first one
C15_StoredRecordKept ==
    /\ FirstInsertStores
    /\ (scall.op = "insert" /\ scall.at \in DOMAIN scall.before[scall.table])
       => storage = scall.before

(***************************************************************************)
(* C16  Point lookups.                                                     *)
(***************************************************************************)
\* the row a record is written as
ToParams(table, record) ==
    CASE table = "instances" -> instance_to_params(record)
      [] table = "spans" -> span_to_params(record)
      [] table = "span_events" -> span_event_to_params(record)
      [] table = "events" -> event_to_params(record)

\* a lookup of a stored key returns the record of its row and changes nothing
StoredIsFound ==
    (scall.op = "get" /\ scall.at \in DOMAIN scall.before[scall.table])
    => /\ scall.status = "some"
       /\ scall.val = Stored(scall.before, scall.table, scall.at)
       /\ ToParams(scall.table, scall.val) = scall.before[scall.table][scall.at]
       /\ storage = scall.before

\* C16: get_instance, get_span, get_span_event and get_event return None,
\* without failing, when no record is stored under the key, and Some(record)
\* otherwise.
C16_PointLookups ==
    /\ StoredIsFound
    /\ (scall.op = "get" /\ scall.at \notin DOMAIN scall.before[scall.table])
       => /\ scall.status = "none"
          /\ storage = scall.before

\* the half that the code keeps
C16_StoredIsFound == StoredIsFound /\ (scall.op = "get" => storage = scall.before)

(***************************************************************************)
(* C17  In-place updates.                                                  *)
(***************************************************************************)
UpdateOps == {"update_instance_disconnected", "update_span_closed",
              "update_span_fields"}

\* the record an update of a stored record must leave behind
Updated(op, old, arg) ==
    CASE op = "update_instance_disconnected" -> [old EXCEPT !.disconnected_at = arg]
      [] op = "update_span_closed" -> [old EXCEPT !.closed_at = arg]
      [] op = "update_span_fields" ->
             [old EXCEPT !.fields =
                 {q \in old.fields : \A n \in arg : n[1] # q[1]} \cup arg]

\* C17: an in-place update changes only its own field of its own record:
\* update_span_fields leaves the fields of the span as the old ones with the
\* new ones merged over them, update_span_closed sets closed_at only,
\* update_instance_disconnected sets disconnected_at only; every other
\* field of that record and every other row of every table is unchanged,
\* and without a record under the key nothing changes.
C17_InPlaceUpdates ==
    scall.op \in UpdateOps
    => /\ SameBut(scall.before, scall.table, scall.at)
       /\ DOMAIN storage[scall.table] = DOMAIN scall.before[scall.table]
       /\ scall.at \in DOMAIN scall.before[scall.table]
          => /\ scall.status = "ok"
             /\ Stored(storage, scall.table, scall.at)
                = Updated(scall.op, Stored(scall.before, scall.table, scall.at),
                          scall.arg)

\* a span stored with the field k has been given the field x: it has both
C17_FieldsMerged ==
    /\ scall.op = "update_span_fields"
    /\ scall.status = "ok"
    /\ Stored(scall.before, "spans", scall.at).fields = {<<"k", Str("a")>>}
    /\ Stored(storage, "spans", scall.at).fields
       = {<<"k", Str("a")>>, <<"x", Str("b")>>}

(***************************************************************************)
(* ingress.rs and main.rs: ingress_task.  Each accepted connection is a    *)
(* spawned task that reads length-prefixed frames: a handshake, then       *)
(* messages.  A stream is the frames the peer sent and how it ended; a     *)
(* frame is the length its prefix declares and the body bytes that arrived.*)
(* calls is the log of the calls the task has made on the engine.          *)
(***************************************************************************)
Frame(length, body) == [length |-> length, body |-> body]

\* Handshake { fields }: the body is the number of fields, here none or one
deserialize_handshake(body) ==
    IF Len(body) = 1 /\ body[1] \in {0, 1}
    THEN Ok([fields |-> IF body[1] = 0 THEN {} ELSE {<<"x", Str("a")>>}])
    ELSE Err("parse")

\* the variants of MessageData, by their index in the encoding
MessageTags == <<"create", "update", "follows", "enter", "exit", "close", "event">>

\* Option<u64> in the encoding: 0 is None, n + 1 is Some(n)
OptionOf(b) == IF b = 0 THEN [some |-> FALSE, val |-> 0] ELSE [some |-> TRUE, val |-> b - 1]

\* deserialize_message that takes an unknown variant for an Event
deserialize_message_accepting_any_tag(body) ==
    IF Len(body) = 3 /\ body[1] \in Timestamps
       /\ ~(OptionOf(body[2]).some /\ OptionOf(body[2]).val = 0)
    THEN Ok([timestamp |-> body[1],
             span_id |-> IF OptionOf(body[2]).some THEN OptionOf(body[2]).val ELSE None,
             data |-> IF body[3] \in 1..Len(MessageTags)
                      THEN MessageTags[body[3]] ELSE "event"])
    ELSE Err("parse")

\* Message { timestamp, span_id, data } of ingress.rs: timestamp is a
\* NonZeroU64, span_id an Option<NonZeroU64>, data one of the seven variants
deserialize_message(body) ==
    IF Len(body) = 3 /\ body[1] \in Timestamps
       /\ ~(OptionOf(body[2]).some /\ OptionOf(body[2]).val = 0)
       /\ body[3] \in 1..Len(MessageTags)
    THEN Ok([timestamp |-> body[1],
             span_id |-> IF OptionOf(body[2]).some THEN OptionOf(body[2]).val ELSE None,
             data |-> MessageTags[body[3]]])
    ELSE Err("parse")

\* Message of main.rs: timestamp is a DateTime<Utc>, here its microseconds
\* from the epoch (negative before it), span_id an Option<u64>: [some, val]
main_deserialize_message(body) ==
    IF Len(body) = 3 /\ body[3] \in 1..Len(MessageTags)
    THEN Ok([timestamp |-> body[1], span_id |-> OptionOf(body[2]),
             data |-> MessageTags[body[3]]])
    ELSE Err("parse")

\* main.rs: (msg.timestamp - UNIX_EPOCH).to_std().unwrap().as_micros() and
\* timestamp.try_into().unwrap(): [ok, val], ok is FALSE when an unwrap panics
main_timestamp(timestamp) ==
    IF timestamp < 0 THEN [ok |-> FALSE, val |-> 0]
    ELSE IF timestamp = 0 THEN [ok |-> FALSE, val |-> 0]
    ELSE [ok |-> TRUE, val |-> timestamp]

\* the calls on the engine
InsertInstanceCall(id, fields) == [op |-> "insert_instance", id |-> id, fields |-> fields]

InsertSpanEventCall(instance_key, timestamp, span_id, kind) ==
    [op |-> "insert_span_event", instance_key |-> instance_key,
     timestamp |-> timestamp, span_id |-> span_id, kind |-> kind]

InsertEventCall(instance_key, timestamp, span_id) ==
    [op |-> "insert_event", instance_key |-> instance_key,
     timestamp |-> timestamp, span_id |-> span_id]

DisconnectInstanceCall(id) == [op |-> "disconnect_instance", id |-> id]

\* match msg.data: the call a message makes, [ok, call]; ok is FALSE when
\* msg.span_id.unwrap() panics on a span message without a span_id.
\* span_id is the Option as [some, val].
MessageCall(instance_key, timestamp, span_id, data) ==
    IF data = "event"
    THEN [ok |-> TRUE, call |-> InsertEventCall(instance_key, timestamp, span_id)]
    ELSE IF ~span_id.some
         THEN [ok |-> FALSE, call |-> InsertEventCall(instance_key, timestamp, span_id)]
         ELSE [ok |-> TRUE,
               call |-> InsertSpanEventCall(instance_key, timestamp, span_id.val, data)]

(***************************************************************************)
(* The connection task as a state machine.  A step runs from one await to  *)
(* the next: the read of a length prefix, the read of a body (with the     *)
(* parse and the call that follow it), the answer of insert_instance.      *)
(***************************************************************************)
\* the most message frames of a stream
MaxFrames == 2

\* handshakes without and with a field, one that does not parse, one cut short
HandshakeFrames ==
    { Frame(1, <<0>>), Frame(1, <<1>>), Frame(1, <<9>>), Frame(1, <<>>) }

\* well-formed messages (every variant, with and without a span_id), a
\* message at the epoch and one before it, an unknown variant, a span_id of
\* zero, and a body cut short
MessageFrames ==
    { Frame(3, <<1, sid, tag>>) : sid \in {0, 6}, tag \in 1..Len(MessageTags) }
    \cup { Frame(3, <<0, 6, 7>>), Frame(3, <<-1, 6, 7>>), Frame(3, <<1, 6, 9>>),
           Frame(3, <<1, 1, 7>>), Frame(3, <<1>>) }

RECURSIVE FrameSeqs(_)
FrameSeqs(n) ==
    IF n = 0 THEN {<<>>}
    ELSE FrameSeqs(n - 1)
         \cup {Append(fs, f) : fs \in {g \in FrameSeqs(n - 1) : Len(g) = n - 1},
                               f \in MessageFrames}

\* all of a frame arrived
Complete(frame) == Len(frame.body) = frame.length

\* the streams a peer can send: a frame that was cut short is the last one
Streams ==
    { [frames |-> fs, ending |-> e] :
        fs \in {<<>>} \cup {<<h>> \o ms : h \in HandshakeFrames, ms \in FrameSeqs(MaxFrames)},
        e \in {"eof", "partial", "reset"} }

WellSentStreams ==
    { st \in Streams :
        \A i \in 1..Len(st.frames) :
            ~Complete(st.frames[i]) => (i = Len(st.frames) /\ st.ending # "partial") }

\* RandomState::new().hash_one(0u64)
InstanceIds == {7, 8}

Conn(pc, task, stream, pos, instance_id, instance_key, handled) ==
    [pc |-> pc, task |-> task, stream |-> stream, pos |-> pos,
     instance_id |-> instance_id, instance_key |-> instance_key,
     handled |-> handled]

InitIngress ==
    /\ QueryIdle
    /\ probe = NoProbe
    /\ IoIdle

IngressUnchanged ==
    /\ UNCHANGED queryVars
    /\ UNCHANGED <<storage, scall, live, listener>>

\* listener.accept() and tokio::spawn
Accept ==
    /\ conn.pc = "none"
    /\ \E task \in {"ingress.rs", "main.rs"}, stream \in WellSentStreams :
          conn' = Conn("handshake_length", task, stream, 1, None, None, 0)
    /\ UNCHANGED calls
    /\ IngressUnchanged

\* stream.read_exact(&mut length_bytes) of the handshake
ReadHandshakeLength ==
    /\ conn.pc = "handshake_length"
    /\ conn' = [conn EXCEPT !.pc = IF conn.pos > Len(conn.stream.frames)
                                   THEN "returned" ELSE "handshake"]
    /\ UNCHANGED calls
    /\ IngressUnchanged

\* the read of the handshake, its parse and the call of insert_instance
ReadHandshake ==
    /\ conn.pc = "handshake"
    /\ LET frame == conn.stream.frames[conn.pos]
           handshake == deserialize_handshake(frame.body)
       IN  IF ~Complete(frame) \/ ~handshake.ok
           THEN /\ conn' = [conn EXCEPT !.pc = "returned"]
                /\ UNCHANGED calls
           ELSE \E instance_id \in InstanceIds :
                   /\ conn' = [conn EXCEPT !.pc = "inserting", !.pos = @ + 1,
                                           !.instance_id = instance_id]
                   /\ calls' = Append(calls, InsertInstanceCall(instance_id,
                                                                handshake.val.fields))
    /\ IngressUnchanged

\* engine.insert_instance(instance).await: Ok(key) or Err
InstanceInserted ==
    /\ conn.pc = "inserting"
    /\ \/ \E key \in {1} :
             conn' = [conn EXCEPT !.pc = "message_length", !.instance_key = key]
       \/ conn' = [conn EXCEPT !.pc = "returned"]
    /\ UNCHANGED calls
    /\ IngressUnchanged

\* break out of the loop: engine.disconnect_instance(instance_id)
Break(c, log) ==
    /\ conn' = [c EXCEPT !.pc = "done"]
    /\ calls' = Append(log, DisconnectInstanceCall(c.instance_id))

\* stream.read_exact(&mut length_bytes) of a message
ReadMessageLength ==
    /\ conn.pc = "message_length"
    /\ IF conn.pos > Len(conn.stream.frames)
       THEN Break(conn, calls)
       ELSE /\ conn' = [conn EXCEPT !.pc = "message"]
            /\ UNCHANGED calls
    /\ IngressUnchanged

\* the read of a message, its parse and the match on msg.data
ReadMessage ==
    /\ conn.pc = "message"
    /\ LET frame == conn.stream.frames[conn.pos]
           dispatch(parsed, at, made) ==
               IF ~Complete(frame) \/ ~parsed.ok
               THEN Break(conn, calls)
               ELSE IF ~at.ok \/ ~made.ok
               THEN /\ conn' = [conn EXCEPT !.pc = "panicked"]
                    /\ UNCHANGED calls
               ELSE /\ conn' = [conn EXCEPT !.pc = "message_length", !.pos = @ + 1,
                                            !.handled = @ + 1]
                    /\ calls' = Append(calls, made.call)
           ingress(parsed) ==
               dispatch(parsed, [ok |-> parsed.ok, val |-> 0],
                        IF parsed.ok
                        THEN MessageCall(conn.instance_key, parsed.val.timestamp,
                                 [some |-> parsed.val.span_id # None,
                                  val |-> parsed.val.span_id],
                                 parsed.val.data)
                        ELSE [ok |-> FALSE, call |-> <<>>])
           main(parsed) ==
               dispatch(parsed,
                        IF parsed.ok THEN main_timestamp(parsed.val.timestamp)
                        ELSE [ok |-> FALSE, val |-> 0],
                        IF parsed.ok
                        THEN MessageCall(conn.instance_key,
                                 main_timestamp(parsed.val.timestamp).val,
                                 parsed.val.span_id, parsed.val.data)
                        ELSE [ok |-> FALSE, call |-> <<>>])
       IN  IF conn.task = "ingress.rs"
           THEN ingress(deserialize_message(frame.body))
           ELSE main(main_deserialize_message(frame.body))
    /\ IngressUnchanged

NextIngress ==
    \/ Accept
    \/ ReadHandshakeLength
    \/ ReadHandshake
    \/ InstanceInserted
    \/ ReadMessageLength
    \/ ReadMessage

SpecIngress == InitIngress /\ [][NextIngress]_vars

\* a spawned task is run by the runtime, and a read ends with bytes, with
\* the end of the stream or with an error
SpecIngressLive == SpecIngress /\ WF_vars(NextIngress)

(***************************************************************************)
(* C18  Protocol errors leave the engine unaffected.                       *)
(***************************************************************************)
Accepted == conn.pc # "none"

\* a handshake frame that arrived whole and is a Handshake
WellFormedHandshake(frame) ==
    /\ Len(frame.body) = frame.length
    /\ frame.body \in {<<0>>, <<1>>}

\* a message frame that arrived whole and is a Message of the task's protocol
WellFormedMessage(task, frame) ==
    /\ Len(frame.body) = frame.length
    /\ Len(frame.body) = 3
    /\ frame.body[3] \in 1..7
    /\ task = "ingress.rs" => (frame.body[1] >= 1 /\ frame.body[2] # 1)

\* the index of the first frame after the handshake that is cut short or
\* malformed; past the end when there is none
FirstBadFrame(task, frames) ==
    LET bad == {i \in 2..Len(frames) : ~WellFormedMessage(task, frames[i])}
    IN  IF bad = {} THEN Len(frames) + 1
        ELSE CHOOSE i \in bad : \A j \in bad : i <= j

InsertCalls(log) ==
    SelectSeq(log, LAMBDA c : c.op \in {"insert_span_event", "insert_event"})

\* an insert call is the one of a frame
CallOfFrame(call, frame) ==
    /\ call.timestamp = frame.body[1]
    /\ call.op = IF frame.body[3] = 7 THEN "insert_event" ELSE "insert_span_event"

\* C18: a handshake that is cut short or malformed ends the connection with
\* no engine call at all; a message frame that is cut short or malformed
\* ends the read loop: no insert is issued for it or for any later frame,
\* and the inserts of the valid frames before it stay issued, one per frame
\* and in their order.
C18_ProtocolErrors ==
    Accepted
    => LET frames == conn.stream.frames
           inserts == InsertCalls(calls)
           bad == FirstBadFrame(conn.task, conn.stream.frames)
       IN  /\ (frames = <<>> \/ ~WellFormedHandshake(frames[1])) => calls = <<>>
           /\ Len(inserts) = conn.handled
           /\ \A i \in 1..Len(inserts) :
                 /\ i + 1 < bad
                 /\ CallOfFrame(inserts[i], frames[i + 1])
           /\ (conn.pc = "done" /\ bad <= Len(frames)) => Len(inserts) = bad - 2

\* a malformed frame has ended the loop after one valid frame, whose insert
\* is still the only one
C18_MalformedAfterValid ==
    /\ conn.pc = "done"
    /\ Len(conn.stream.frames) = 3
    /\ WellFormedMessage(conn.task, conn.stream.frames[2])
    /\ Len(conn.stream.frames[3].body) = 3
    /\ ~WellFormedMessage(conn.task, conn.stream.frames[3])
    /\ Len(InsertCalls(calls)) = 1

(***************************************************************************)
(* C19  Connection lifecycle.                                              *)
(***************************************************************************)
\* the handshake parsed and insert_instance succeeded
Registered == conn.pc \in {"message_length", "message", "done", "panicked"}

Disconnected ==
    \E i \in 1..Len(calls) : calls[i] = DisconnectInstanceCall(conn.instance_id)

\* insert_instance is called exactly once and before any insert, and
\* disconnect_instance at most once, for the instance id, after every insert
CallOrder ==
    /\ calls # <<>>
    /\ calls[1].op = "insert_instance"
    /\ calls[1].id = conn.instance_id
    /\ \A i \in 2..Len(calls) : calls[i].op # "insert_instance"
    /\ \A i \in 1..Len(calls) :
          calls[i].op = "disconnect_instance"
          => (i = Len(calls) /\ calls[i].id = conn.instance_id)

\* C19: for every accepted connection whose handshake parses and whose
\* insert_instance succeeds, insert_instance is called exactly once before
\* any insert, and disconnect_instance for that instance id is eventually
\* called, exactly once, after the last insert, whatever frames follow: a
\* clean end of the stream, a frame cut short, a malformed frame, or a span
\* message without a span_id.
C19_Lifecycle ==
    /\ [](Registered => CallOrder)
    /\ Registered ~> Disconnected

\* the half that the code keeps in every run
C19_CallOrder == Registered => CallOrder

\* a message of the stream on which an unwrap of the task panics: a span
\* message without a span_id, and in main.rs a timestamp at or before the epoch
PanicsOn(task, frame) ==
    /\ WellFormedMessage(task, frame)
    /\ \/ frame.body[3] # 7 /\ frame.body[2] = 0
       \/ task = "main.rs" /\ frame.body[1] <= 0

\* the task reads no message it panics on before the loop ends
NoPanicFrame ==
    \A i \in 2..Len(conn.stream.frames) :
        i < FirstBadFrame(conn.task, conn.stream.frames)
        => ~PanicsOn(conn.task, conn.stream.frames[i])

\* without such a message the connection is disconnected in the end
C19_DisconnectedUnlessPanic == (Registered /\ NoPanicFrame) ~> Disconnected

\* the eventual disconnect for the task of ingress.rs alone
C19_IngressDisconnects ==
    (Registered /\ conn.task = "ingress.rs") ~> Disconnected

(***************************************************************************)
(* BoundSearch by expansion: the bounds of the windows (0,1), (1,2),       *)
(* (2,4), (4,8), .. are probed from one side of the slice and the binary   *)
(* search runs inside the first window that holds the answer.  The result  *)
(* is the index, or OutOfRange when an index or a range panics.            *)
(***************************************************************************)
OutOfRange == 0 - 2

\* &self[from..to] panics unless from <= to <= len
SliceInRange(s, from, to) == from <= to /\ to <= Len(s)

\* one round of lower_bound_via_expansion and the rounds after it
RECURSIVE LowerExpansion(_, _, _, _)
LowerExpansion(s, item, start, end) ==
    IF end >= Len(s)
    THEN IF SliceInRange(s, start, Len(s))
         THEN lower_bound(Slice(s, start, Len(s)), item) + start
         ELSE OutOfRange
    ELSE IF s[end + 1] < item
    THEN LowerExpansion(s, item, end, end * 2)
    ELSE IF SliceInRange(s, start, end)
         THEN lower_bound(Slice(s, start, end), item) + start
         ELSE OutOfRange

lower_bound_via_expansion(s, item) == LowerExpansion(s, item, 0, 1)

\* UpperExpansion that also moves on past an element equal to the item
RECURSIVE UpperExpansion_past_equal(_, _, _, _)
UpperExpansion_past_equal(s, item, start, end) ==
    IF end >= Len(s)
    THEN IF SliceInRange(s, 0, Len(s) - start)
         THEN upper_bound(Slice(s, 0, Len(s) - start), item)
         ELSE OutOfRange
    ELSE IF s[Len(s) - end + 1] >= item
    THEN UpperExpansion_past_equal(s, item, end, end * 2)
    ELSE IF SliceInRange(s, Len(s) - end, Len(s) - start)
         THEN upper_bound(Slice(s, Len(s) - end, Len(s) - start), item)
              + (Len(s) - end)
         ELSE OutOfRange

\* one round of upper_bound_via_expansion and the rounds after it
RECURSIVE UpperExpansion(_, _, _, _)
UpperExpansion(s, item, start, end) ==
    IF end >= Len(s)
    THEN IF SliceInRange(s, 0, Len(s) - start)
         THEN upper_bound(Slice(s, 0, Len(s) - start), item)
         ELSE OutOfRange
    ELSE IF s[Len(s) - end + 1] > item
    THEN UpperExpansion(s, item, end, end * 2)
    ELSE IF SliceInRange(s, Len(s) - end, Len(s) - start)
         THEN upper_bound(Slice(s, Len(s) - end, Len(s) - start), item)
              + (Len(s) - end)
         ELSE OutOfRange

upper_bound_via_expansion(s, item) == UpperExpansion(s, item, 0, 1)

(***************************************************************************)
(* BoundSearch on sorted slices: lower_bound and upper_bound applied to a  *)
(* slice and an item.                                                      *)
(***************************************************************************)
\* the longest slice
MaxLen == 5

\* the sorted slices over Timestamps up to that length, duplicates included
SortedSlices ==
    { s \in UNION {[1..n -> Timestamps] : n \in 0..MaxLen} :
        \A i \in 1..(Len(s) - 1) : s[i] <= s[i + 1] }

\* neither bound has been computed yet
NotCalled == 0 - 1

InitBound ==
    /\ QueryIdle
    /\ IoIdle
    /\ \E slice \in SortedSlices, item \in Timestamps :
          probe = [op |-> "bounds", slice |-> slice, item |-> item,
                   lower |-> NotCalled, upper |-> NotCalled,
                   lower_x |-> NotCalled, upper_x |-> NotCalled]

\* slice.lower_bound(&item)
CallLowerBound ==
    /\ probe.op = "bounds"
    /\ probe.lower = NotCalled
    /\ probe' = [probe EXCEPT !.lower = lower_bound(probe.slice, probe.item)]
    /\ UNCHANGED <<instances, spans, events, equery, eiter, eout, epc,
                   squery, siter, sout, spc>>
    /\ UNCHANGED ioVars

\* slice.upper_bound(&item)
CallUpperBound ==
    /\ probe.op = "bounds"
    /\ probe.upper = NotCalled
    /\ probe' = [probe EXCEPT !.upper = upper_bound(probe.slice, probe.item)]
    /\ UNCHANGED <<instances, spans, events, equery, eiter, eout, epc,
                   squery, siter, sout, spc>>
    /\ UNCHANGED ioVars

\* slice.lower_bound_via_expansion(&item)
CallLowerBoundViaExpansion ==
    /\ probe.op = "bounds"
    /\ probe.lower_x = NotCalled
    /\ probe' = [probe EXCEPT
                    !.lower_x = lower_bound_via_expansion(probe.slice, probe.item)]
    /\ UNCHANGED <<instances, spans, events, equery, eiter, eout, epc,
                   squery, siter, sout, spc>>
    /\ UNCHANGED ioVars

\* slice.upper_bound_via_expansion(&item)
CallUpperBoundViaExpansion ==
    /\ probe.op = "bounds"
    /\ probe.upper_x = NotCalled
    /\ probe' = [probe EXCEPT
                    !.upper_x = upper_bound_via_expansion(probe.slice, probe.item)]
    /\ UNCHANGED <<instances, spans, events, equery, eiter, eout, epc,
                   squery, siter, sout, spc>>
    /\ UNCHANGED ioVars

NextBound ==
    \/ CallLowerBound
    \/ CallUpperBound
    \/ CallLowerBoundViaExpansion
    \/ CallUpperBoundViaExpansion

SpecBound == InitBound /\ [][NextBound]_vars

(***************************************************************************)
(* C20  lower_bound and upper_bound.                                       *)
(***************************************************************************)
\* how many elements of a slice satisfy a test
CountOf(s, Test(_)) == Cardinality({i \in 1..Len(s) : Test(s[i])})

\* idx (0-based) is the first index whose element satisfies the test, the
\* length when none does
FirstIndex(s, idx, Test(_)) ==
    /\ idx \in 0..Len(s)
    /\ \A i \in 1..idx : ~Test(s[i])
    /\ idx < Len(s) => Test(s[idx + 1])

\* C20: for every sorted slice (also empty, also with duplicates) and every
\* item x, lower_bound(x) is the number of elements strictly less than x,
\* the first index whose element is not less than x; upper_bound(x) is the
\* number of elements less than or equal to x, the first index whose
\* element is greater than x; hence lower_bound(x) <= upper_bound(x) <= len
\* and their difference is the number of occurrences of x.
C20_Bounds ==
    probe.op = "bounds"
    => LET s == probe.slice
           x == probe.item
       IN  /\ probe.lower # NotCalled
              => /\ probe.lower = CountOf(s, LAMBDA e : e < x)
                 /\ FirstIndex(s, probe.lower, LAMBDA e : ~(e < x))
           /\ probe.upper # NotCalled
              => /\ probe.upper = CountOf(s, LAMBDA e : e <= x)
                 /\ FirstIndex(s, probe.upper, LAMBDA e : e > x)
           /\ (probe.lower # NotCalled /\ probe.upper # NotCalled)
              => /\ probe.lower <= probe.upper
                 /\ probe.upper <= Len(s)
                 /\ probe.upper - probe.lower = CountOf(s, LAMBDA e : e = x)

\* both bounds of an item that occurs twice, between a smaller and no larger
\* element, have been computed
C20_DuplicateItem ==
    /\ probe.op = "bounds"
    /\ probe.slice = <<1, 2, 2>>
    /\ probe.item = 2
    /\ probe.lower = 1
    /\ probe.upper = 3

(***************************************************************************)
(* C21  The searches by expansion agree with the binary searches.          *)
(***************************************************************************)
\* C21: for every sorted slice (of any length, 0 and 1 and lengths that are
\* no power of two included, with duplicates) and every item x,
\* lower_bound_via_expansion(x) = lower_bound(x) and
\* upper_bound_via_expansion(x) = upper_bound(x); the search ends, and it
\* never indexes or slices out of range.
C21_ExpansionAgrees ==
    probe.op = "bounds"
    => /\ probe.lower_x # NotCalled
          => /\ probe.lower_x # OutOfRange
             /\ probe.lower_x = lower_bound(probe.slice, probe.item)
       /\ probe.upper_x # NotCalled
          => /\ probe.upper_x # OutOfRange
             /\ probe.upper_x = upper_bound(probe.slice, probe.item)

\* both searches by expansion have gone through three windows on a slice of
\* five elements with a duplicated item in the middle
C21_ThreeWindows ==
    /\ probe.op = "bounds"
    /\ probe.slice = <<1, 2, 2, 3, 4>>
    /\ probe.item = 2
    /\ probe.lower_x = 1
    /\ probe.upper_x = 3

(***************************************************************************)
(* C22  Order symmetry of the event iterator.                              *)
(***************************************************************************)
Reverse(s) == [i \in 1..Len(s) |-> s[Len(s) + 1 - i]]

\* the keys of s go strictly up (Asc) or strictly down (Desc)
StrictlyOrdered(s, order) ==
    \A i \in 1..(Len(s) - 1) :
        IF order = "Asc" THEN s[i] < s[i + 1] ELSE s[i] > s[i + 1]

OtherOrder(order) == IF order = "Asc" THEN "Desc" ELSE "Asc"

\* the run of the same query in the other order
EventRunOtherOrder ==
    EventUnpaginated([equery EXCEPT !.order = OtherOrder(equery.order)])

\* C22: for the same filter and window and no previous cursor the Asc
\* iterator yields its keys strictly ascending, the Desc iterator strictly
\* descending, and the Desc sequence is the reverse of the Asc sequence, so
\* the count of a run to exhaustion is the same in both orders.
C22_OrderSymmetry ==
    (epc \in {"iter", "done", "panic", "hang"} /\ equery.previous = None
        /\ EventFilterValid(equery.filter) /\ EventFilterKnown(equery.filter))
    => /\ StrictlyOrdered(eout, equery.order)
       /\ EventRunEnded
          => LET mirrored(other) ==
                     /\ epc = "done"
                     /\ other.status = "done"
                     /\ other.out = Reverse(eout)
                     /\ Len(other.out) = Len(eout)
             IN  mirrored(EventRunOtherOrder)

\* the same statement for stores that stay off the two extreme keys
C22_Interior ==
    (TimestampMIN \notin DOMAIN events /\ TimestampMAX \notin DOMAIN events)
    => C22_OrderSymmetry

\* whenever the runs in both orders end, they mirror each other
C22_CompletedRuns ==
    (epc = "done" /\ equery.previous = None
        /\ EventFilterValid(equery.filter) /\ EventFilterKnown(equery.filter))
    => /\ StrictlyOrdered(eout, equery.order)
       /\ LET mirrored(other) ==
                  other.status = "done" => other.out = Reverse(eout)
          IN  mirrored(EventRunOtherOrder)

(***************************************************************************)
(* C23  The live-subscription path (BasicEventFilter::matches) and the     *)
(* query path (IndexedEventFilter) decide the same events.                 *)
(***************************************************************************)
\* the live path's verdict on a stored event
LiveMatches(f, event_key) == BasicEventFilter_matches(EventFilterOf(f), event_key)

\* the stored events inside the query's window
EventsInWindow == {k \in DOMAIN events : equery.start <= k /\ k <= equery.end}

\* C23: for every event e and every filter lowered from valid predicates,
\* matches(F, e) is true exactly when the indexed query for F over a window
\* containing e's timestamp yields e.
C23_PathsAgree ==
    (EventRunEnded /\ equery.previous = None
        /\ EventFilterValid(equery.filter) /\ EventFilterKnown(equery.filter))
    => /\ epc = "done"
       /\ \A k \in EventsInWindow :
              LiveMatches(equery.filter, k) <=> k \in SeqToSet(eout)

\* the same statement for stores that stay off the two extreme keys
C23_Interior ==
    (TimestampMIN \notin DOMAIN events /\ TimestampMAX \notin DOMAIN events)
    => C23_PathsAgree

\* every key the query path yields is an event the live path accepts, and a
\* run that ends has yielded every event the live path accepts
C23_CompletedRuns ==
    (epc \in {"iter", "done"} /\ equery.previous = None
        /\ EventFilterValid(equery.filter) /\ EventFilterKnown(equery.filter))
    => /\ \A i \in 1..Len(eout) :
              eout[i] \in EventsInWindow /\ LiveMatches(equery.filter, eout[i])
       /\ epc = "done" =>
              \A k \in EventsInWindow :
                  LiveMatches(equery.filter, k) => k \in SeqToSet(eout)

(***************************************************************************)
(* C24  Event subscriptions at the host (main.rs) over the engine's        *)
(* subscription manager.  live.subs are the engine's entries, live.queue   *)
(* the per-subscription channel, live.task the forwarding task spawned by  *)
(* subscribe_to_events, live.emitted what the host has been sent.          *)
(***************************************************************************)
MaxSubscriptions == 2
QueueCapacity == 1
MaxLiveEvents == 3

SubscriptionIds == 1..MaxSubscriptions

\* what an event ingested under a subscription may look like
LiveEventInputs ==
    { [instance_key |-> 2, span_key |-> 3, level |-> LevelError, fields |-> {}],
      [instance_key |-> 3, span_key |-> None, level |-> LevelInfo,
       fields |-> {<<"u", Str("v")>>}] }

\* the filters a subscription may carry
LiveFilters ==
    { <<PLevel("Gte", <<"W", "A", "R", "N">>)>>,
      <<PAttribute("u", Str("v"))>> }

LiveEventPayload_untagged(id, data) == [id |-> 0, data |-> data]

\* LiveEventPayload { id, data: event }
LiveEventPayload(id, data) == [id |-> id, data |-> data]

\* the forwarding task: waiting in recv, holding a received event, or over
LiveTask(pc, event) == [pc |-> pc, event |-> event]

\* Engine::subscribe_to_events: a fresh id, an entry and an open queue
Engine_subscribe_to_events(l, filter) ==
    LET id == l.next_id + 1
    IN  [l EXCEPT !.next_id = id,
                  !.subs = Append(@, [id |-> id, filter |-> filter]),
                  !.queue = Append(@, <<>>),
                  !.closed = Append(@, FALSE)]

RECURSIVE WithoutId(_, _)
WithoutId(subs, id) ==
    IF subs = <<>> THEN <<>>
    ELSE IF Head(subs).id = id THEN WithoutId(Tail(subs), id)
         ELSE <<Head(subs)>> \o WithoutId(Tail(subs), id)

\* Engine::unsubscribe_from_events: the entry is removed, its queue closed
Engine_unsubscribe_from_events(l, id) ==
    IF id > l.next_id THEN l
    ELSE [l EXCEPT !.subs = WithoutId(@, id), !.closed[id] = TRUE]

\* the producer's send on a bounded queue; a full queue loses one event
QueueSend(queue, item, policy) ==
    IF Len(queue) < QueueCapacity THEN Append(queue, item)
    ELSE IF policy = "oldest" THEN Append(Tail(queue), item)
         ELSE queue

\* the entry of subscription id, if the engine still holds one
HasSubscription(l, id) == \E i \in 1..Len(l.subs) : l.subs[i].id = id
SubscriptionOf(l, id) == l.subs[CHOOSE i \in 1..Len(l.subs) : l.subs[i].id = id]

InitLive ==
    /\ instances = WorldInstances
    /\ spans = WorldSpans
    /\ events = <<>>
    /\ equery = NoQuery
    /\ eiter = NoEventIter
    /\ eout = <<>>
    /\ epc = "idle"
    /\ squery = NoQuery
    /\ siter = NoSpanIter
    /\ sout = <<>>
    /\ spc = "idle"
    /\ probe = NoProbe
    /\ storage = EmptyStorage
    /\ scall = NoCall
    /\ conn = NoConn
    /\ calls = <<>>
    /\ listener = NoIngress
    /\ live = [next_id |-> 0, subs |-> <<>>, queue |-> <<>>, closed |-> <<>>,
               task |-> <<>>, received |-> <<>>, cut |-> <<>>, emitted |-> <<>>]

LiveUnchanged ==
    UNCHANGED <<instances, spans, equery, eiter, eout, epc, squery, siter, sout,
                spc, probe, storage, scall, conn, calls, listener>>

\* subscribe_to_events: the engine's subscribe, then the forwarding task is spawned
subscribe_to_events ==
    /\ live.next_id < MaxSubscriptions
    /\ \E f \in LiveFilters :
          LET l == Engine_subscribe_to_events(live, EventFilterOf(f))
          IN  live' = [l EXCEPT !.task = Append(@, LiveTask("recv", None)),
                                !.received = Append(@, <<>>),
                                !.cut = Append(@, {})]
    /\ UNCHANGED events
    /\ LiveUnchanged

\* unsubscribe_from_events(id); cut records the events ingested before it
unsubscribe_from_events ==
    /\ \E id \in SubscriptionIds :
          /\ id <= live.next_id => ~live.closed[id]
          /\ LET l == Engine_unsubscribe_from_events(live, id)
             IN  live' = IF id <= live.next_id
                         THEN [l EXCEPT !.cut[id] = DOMAIN events]
                         ELSE l
    /\ UNCHANGED events
    /\ LiveUnchanged

\* an event is ingested: every subscription whose filter matches it is sent it
IngestEvent ==
    /\ LiveUnchanged
    /\ \E ts \in 1..MaxLiveEvents, e \in LiveEventInputs, policy \in {"newest", "oldest"} :
          /\ \A k \in DOMAIN events : k < ts
          /\ events' = [k \in DOMAIN events \cup {ts} |->
                           IF k = ts
                           THEN Event(e.instance_key, ts, e.span_key, e.level, e.fields)
                           ELSE events[k]]
          /\ live' = [live EXCEPT !.queue =
                        [id \in 1..live.next_id |->
                            IF HasSubscription(live, id)
                               /\ \E filter \in {SubscriptionOf(live, id).filter} :
                                      BasicEventFilter_matches(filter, ts)'
                            THEN QueueSend(live.queue[id], ts, policy)
                            ELSE live.queue[id]]]

\* receiver.recv().await: the next queued event, or None once the queue is
\* closed and drained, which ends the task
TaskRecv(id) ==
    /\ id <= live.next_id
    /\ live.task[id].pc = "recv"
    /\ IF live.queue[id] # <<>>
       THEN live' = [live EXCEPT !.queue[id] = Tail(@),
                                 !.task[id] = LiveTask("emit", Head(live.queue[id])),
                                 !.received[id] = Append(@, Head(live.queue[id]))]
       ELSE /\ live.closed[id]
            /\ live' = [live EXCEPT !.task[id] = LiveTask("ended", None)]
    /\ UNCHANGED events
    /\ LiveUnchanged

\* app.emit("live", LiveEventPayload { id, data: event })
TaskEmit(id) ==
    /\ id <= live.next_id
    /\ live.task[id].pc = "emit"
    /\ live' = [live EXCEPT !.emitted = Append(@, LiveEventPayload(id, live.task[id].event)),
                            !.task[id] = LiveTask("recv", None)]
    /\ UNCHANGED events
    /\ LiveUnchanged

TaskStep == \E id \in SubscriptionIds : TaskRecv(id) \/ TaskEmit(id)

NextLive == subscribe_to_events \/ unsubscribe_from_events \/ IngestEvent \/ TaskStep

SpecLive == InitLive /\ [][NextLive]_vars

\* the runtime keeps scheduling a task that can run
SpecLiveFair ==
    SpecLive /\ \A id \in SubscriptionIds : WF_vars(TaskRecv(id) \/ TaskEmit(id))

\* what the host has been sent under one id, in order
RECURSIVE EmittedFor(_, _)
EmittedFor(emitted, id) ==
    IF emitted = <<>> THEN <<>>
    ELSE IF Head(emitted).id = id
         THEN <<Head(emitted).data>> \o EmittedFor(Tail(emitted), id)
         ELSE EmittedFor(Tail(emitted), id)

LiveClosed(id) == id <= live.next_id /\ live.closed[id]
LiveEnded(id) == id <= live.next_id /\ live.task[id].pc = "ended"

\* the emissions under id are the events received on its queue, in order,
\* short of the one the task holds
EmittedAsReceived(id) ==
    LET sent == EmittedFor(live.emitted, id)
    IN  IF live.task[id].pc = "emit"
        THEN live.received[id] = Append(sent, live.task[id].event)
        ELSE live.received[id] = sent

C24_Safety ==
    /\ \A i \in 1..Len(live.emitted) : live.emitted[i].id \in 1..live.next_id
    /\ \A id \in 1..live.next_id :
          /\ EmittedAsReceived(id)
          /\ live.closed[id] <=> ~HasSubscription(live, id)
          /\ live.closed[id] =>
                \A i \in 1..Len(live.emitted) :
                    live.emitted[i].id = id => live.emitted[i].data \in live.cut[id]

ChildrenSorted(node) ==
    \A i \in 1..(Len(node.children) - 1) :
        estimate_count(node.children[i]) <= estimate_count(node.children[i + 1])

RECURSIVE SortedEverywhere(_)
SortedEverywhere(node) ==
    node.type \in {"And", "Or"}
    => /\ ChildrenSorted(node)
       /\ \A i \in 1..Len(node.children) : SortedEverywhere(node.children[i])

\* the event iterator as IndexedEventFilterIterator::new has just left it
EventIterFresh == epc = "iter" /\ eout = <<>>

\* C25: in the plan of a newly built iterator the children of every And and
\* Or node, not only of the root, are in non-decreasing estimate_count order.
C25_SortedEverywhere == EventIterFresh => SortedEverywhere(eiter.filter)

\* the children of the root are in that order
C25_RootSorted ==
    (EventIterFresh /\ eiter.filter.type \in {"And", "Or"}) => ChildrenSorted(eiter.filter)

(***************************************************************************)
(* C26  simplify collapses single-child And and Or nodes.                  *)
(***************************************************************************)
MaxChildren == 2

FilterLeaves == {BasicLevel(LevelInfo), BasicLevel(LevelError), BasicAttribute("u", Str("v"))}

\* And and Or nodes over up to MaxChildren children drawn from S
NodesOver(S) ==
    UNION {{BasicAnd(c), BasicOr(c)} : c \in UNION {[1..n -> S] : n \in 0..MaxChildren}}

\* chains of single-child nodes over S, one level deep
SinglesOver(S) == UNION {{BasicAnd(<<f>>), BasicOr(<<f>>)} : f \in S}

\* trees of depth up to two, and single-child chains of depth up to four
FilterTrees ==
    LET depth1 == FilterLeaves \cup NodesOver(FilterLeaves)
        depth2 == depth1 \cup NodesOver(depth1)
    IN  depth2 \cup SinglesOver(depth2) \cup SinglesOver(SinglesOver(depth2))

\* the store the filters are evaluated over
SimplifyEvents ==
    (1 :> Event(2, 1, None, LevelInfo, {}))
    @@ (2 :> Event(2, 2, 3, LevelError, {}))
    @@ (3 :> Event(3, 3, None, LevelInfo, {<<"u", Str("v")>>}))

InitSimplify ==
    /\ instances = WorldInstances
    /\ spans = WorldSpans
    /\ events = SimplifyEvents
    /\ equery = NoQuery
    /\ eiter = NoEventIter
    /\ eout = <<>>
    /\ epc = "idle"
    /\ squery = NoQuery
    /\ siter = NoSpanIter
    /\ sout = <<>>
    /\ spc = "idle"
    /\ IoIdle
    /\ \E filter \in FilterTrees :
          probe = [op |-> "simplify", filter |-> filter, once |-> filter,
                   twice |-> filter, calls |-> 0]

\* filter.simplify()
Simplify ==
    /\ probe.op = "simplify"
    /\ probe.calls = 0
    /\ probe' = [probe EXCEPT !.once = BasicFilter_simplify(probe.filter), !.calls = 1]
    /\ UNCHANGED <<instances, spans, events, equery, eiter, eout, epc,
                   squery, siter, sout, spc>>
    /\ UNCHANGED ioVars

\* simplify() on the simplified filter
SimplifyAgain ==
    /\ probe.op = "simplify"
    /\ probe.calls = 1
    /\ probe' = [probe EXCEPT !.twice = BasicFilter_simplify(probe.once), !.calls = 2]
    /\ UNCHANGED <<instances, spans, events, equery, eiter, eout, epc,
                   squery, siter, sout, spc>>
    /\ UNCHANGED ioVars

NextSimplify == Simplify \/ SimplifyAgain

SpecSimplify == InitSimplify /\ [][NextSimplify]_vars

RECURSIVE NoSingleChild(_)
NoSingleChild(filter) ==
    filter.type \in {"And", "Or"}
    => /\ Len(filter.filters) # 1
       /\ \A i \in 1..Len(filter.filters) : NoSingleChild(filter.filters[i])

\* C26: after simplify no And or Or node anywhere has exactly one child, the
\* simplified filter matches the same records as the original, and
\* simplifying again changes nothing.
C26_Simplify ==
    (probe.op = "simplify" /\ probe.calls >= 1)
    => /\ NoSingleChild(probe.once)
       /\ \A k \in DOMAIN events :
              BasicEventFilter_matches(probe.once, k)
                  <=> BasicEventFilter_matches(probe.filter, k)
       /\ probe.calls = 2 => probe.twice = probe.once

\* a chain Or[And[Or[And[level, attribute]]]] has collapsed to the inner And
C26_ChainCollapsed ==
    /\ probe.op = "simplify"
    /\ probe.calls = 2
    /\ probe.filter = BasicOr(<<BasicAnd(<<BasicOr(<<BasicAnd(
           <<BasicLevel(LevelInfo), BasicAttribute("u", Str("v"))>>)>>)>>)>>)
    /\ probe.once = BasicAnd(<<BasicLevel(LevelInfo), BasicAttribute("u", Str("v"))>>)

(***************************************************************************)
(* C27  estimate_count bounds the number of keys a plan yields.            *)
(***************************************************************************)
\* the estimate of the plan IndexedEventFilterIterator::new builds for the query
EventPlanEstimate(made) == estimate_count(made.iter.filter)

\* C27: the number of keys an event iterator yields never exceeds the
\* estimate_count of the plan it was built with.
C27_EstimateBoundsYield ==
    (epc \in {"iter", "done", "panic", "hang"} /\ EventFilterValid(equery.filter)
        /\ EventFilterKnown(equery.filter))
    => LET bounded(made) == made.ok => Len(eout) <= EventPlanEstimate(made)
       IN  bounded(IndexedEventFilterIterator_new(equery))

\* the same statement for stores that stay off the two extreme keys
C27_Interior ==
    (TimestampMIN \notin DOMAIN events /\ TimestampMAX \notin DOMAIN events)
    => C27_EstimateBoundsYield

\* the distinct keys yielded never exceed the estimate
C27_DistinctKeys ==
    (epc \in {"iter", "done", "panic", "hang"} /\ EventFilterValid(equery.filter)
        /\ EventFilterKnown(equery.filter))
    => LET bounded(made) ==
               made.ok => Cardinality(SeqToSet(eout)) <= EventPlanEstimate(made)
       IN  bounded(IndexedEventFilterIterator_new(equery))

(***************************************************************************)
(* C28  ensure_stratified.                                                 *)
(***************************************************************************)
\* the query's plan as IndexedSpanFilter::build leaves it, before ensure_stratified
SpanBuilt(query) ==
    IndexedSpanFilter_build(
        BasicFilter_simplify(
            BasicAnd([i \in 1..Len(query.filter) |->
                         BasicSpanFilter_from_predicate(query.filter[i]).val])))

\* the Or of one Stratified leaf per duration band, without residual
BandsOr ==
    Or([i \in 1..BandCount |->
           Stratified(to_stratified_indexes[i].index, to_stratified_indexes[i].range,
                      NoFilter)])

\* a stratified plan is left alone; any other plan is conjoined with the
\* Or of the bands and is stratified afterwards
StratifiedAsClaimed(built, ensured) ==
    IF is_stratified(built) THEN ensured = built
    ELSE /\ is_stratified(ensured)
         /\ ensured.type = "And"
         /\ ensured.children[Len(ensured.children)] = BandsOr
         /\ IF built.type = "And"
            THEN SubSeq(ensured.children, 1, Len(ensured.children) - 1) = built.children
            ELSE ensured.children = <<built, BandsOr>>

\* the run of the query's iterator over a given plan, not trimmed
SpanRunOfPlan(query, node) ==
    LET make(cursor) ==
            SpanIter(optimize(node), query.order, cursor.curr, cursor.start,
                     IF query.order = "Asc" THEN cursor.end ELSE TimestampMIN)
    IN  SpanRun(make(SpanCursor(query)), <<>>)

\* the span stores a plan is built over: up to two spans created at keys
\* 1..3, each open or closed later, of either level and name
StratifySpanInputs(k) ==
    {Span(2, k, k, closed_at, None, level, name, {}) :
        closed_at \in {None} \cup {t \in Timestamps : t > k},
        level \in {LevelInfo, LevelError},
        name \in {Str("a"), Str("b")}}

StratifyStores ==
    {<<>>}
    \cup UNION {{(k :> a) : a \in StratifySpanInputs(k)} : k \in 1..3}
    \cup UNION {{(j :> a) @@ (k :> b) :
                    a \in StratifySpanInputs(j), b \in StratifySpanInputs(k)} :
                <<j, k>> \in {<<1, 2>>, <<1, 3>>, <<2, 3>>}}

PName(value) == FilterPredicate("None", "name", "None", value)

\* plans that are stratified as built, and plans that are not
StratifyFilters ==
    { <<>>,
      <<PLevel("None", <<"I", "N", "F", "O">>)>>,
      <<PLevel("Gte", <<"I", "N", "F", "O">>)>>,
      <<PLevel("None", <<"I", "N", "F", "O">>), PName(Str("a"))>>,
      <<PLevel("Gte", <<"W", "A", "R", "N">>), PName(Str("a"))>>,
      <<PDuration("Gt", <<"1">>)>>,
      <<PLevel("None", <<"I", "N", "F", "O">>), PDuration("Gt", <<"1">>)>>,
      <<PDuration("Gt", <<"1">>), PDuration("Lt", <<"3">>)>> }

InitStratify ==
    /\ instances = WorldInstances
    /\ events = <<>>
    /\ equery = NoQuery
    /\ eiter = NoEventIter
    /\ eout = <<>>
    /\ epc = "idle"
    /\ siter = NoSpanIter
    /\ sout = <<>>
    /\ spc = "idle"
    /\ IoIdle
    /\ spans \in StratifyStores
    /\ \E f \in StratifyFilters, order \in Orders, start \in Timestamps,
          end \in Timestamps :
          /\ start <= end
          /\ squery = Query(f, order, 0, start, end, None)
    /\ probe = [op |-> "stratify", step |-> 0, built |-> Panicked, ensured |-> Panicked,
                run_built |-> [status |-> "none", out |-> <<>>],
                run_ensured |-> [status |-> "none", out |-> <<>>]]

StratifyUnchanged ==
    /\ UNCHANGED <<instances, spans, events, equery, eiter, eout, epc,
                   squery, siter, sout, spc>>
    /\ UNCHANGED ioVars

\* IndexedSpanFilter::build on the lowered, simplified predicates
BuildPlan ==
    /\ probe.op = "stratify"
    /\ probe.step = 0
    /\ probe' = [probe EXCEPT !.step = 1, !.built = SpanBuilt(squery)]
    /\ StratifyUnchanged

\* filter.ensure_stratified(&engine.span_indexes.durations)
EnsureStratified ==
    /\ probe.op = "stratify"
    /\ probe.step = 1
    /\ probe' = [probe EXCEPT !.step = 2, !.ensured = ensure_stratified(probe.built)]
    /\ StratifyUnchanged

\* the iterator run over the plan as built and over the plan made stratified
RunPlans ==
    /\ probe.op = "stratify"
    /\ probe.step = 2
    /\ probe' = [probe EXCEPT !.step = 3,
                              !.run_built = SpanRunOfPlan(squery, probe.built),
                              !.run_ensured = SpanRunOfPlan(squery, probe.ensured)]
    /\ StratifyUnchanged

NextStratify == BuildPlan \/ EnsureStratified \/ RunPlans

SpecStratify == InitStratify /\ [][NextStratify]_vars

\* span k passes the plan: it is in the slice and passes the residual of a
\* leaf, passes every child of an And, some child of an Or
RECURSIVE SpanTreeHolds(_, _)
SpanTreeHolds(node, k) ==
    IF node.type \in {"Single", "Stratified"}
    THEN /\ k \in SeqToSet(node.entries)
         /\ node.filter.type # "None" => NonIndexedSpanFilter_matches(node.filter, k)
    ELSE IF node.type = "And"
    THEN \A i \in 1..Len(node.children) : SpanTreeHolds(node.children[i], k)
    ELSE \E i \in 1..Len(node.children) : SpanTreeHolds(node.children[i], k)

MaxCalls == 3

\* plans with a residual, an Or, an Or inside an And, and an And of slices
CursorFilters ==
    { <<PAttribute("u", Str("v"))>>,
      <<PLevel("Gte", <<"I", "N", "F", "O">>)>>,
      <<PLevel("Gte", <<"I", "N", "F", "O">>), PAttribute("u", Str("v"))>>,
      <<PInstance(<<"7">>), PLevel("Gte", <<"W", "A", "R", "N">>)>>,
      <<PInstance(<<"7">>), PLevel("None", <<"E", "R", "R", "O", "R">>)>> }

\* what a call returned, without the plan it left behind
Returned(r) == [status |-> r.status, key |-> r.key]

\* a plan is built for a sequence of direct search calls
BuildForCalls ==
    /\ epc = "idle"
    /\ \E f \in CursorFilters, order \in Orders :
          LET start(built) ==
                  probe' = [op |-> "cursor", original |-> built, node |-> built,
                            order |-> order, entry |-> None, calls |-> 0,
                            result |-> Returned(NotFound(built)),
                            stateless |-> Returned(NotFound(built))]
          IN  start(IndexedEventFilter_build(EventFilterOf(f)))
    /\ epc' = "probed"
    /\ UNCHANGED <<instances, spans, events, equery, eiter, eout,
                   squery, siter, sout, spc>>
    /\ UNCHANGED ioVars

\* the next call of search on the plan the last call left, with a cursor
\* that does not go back, beside the same call on the plan as built
SearchCall ==
    /\ probe.op = "cursor"
    /\ probe.calls < MaxCalls
    /\ probe.result.status \in {"some", "none"}
    /\ \E entry \in Timestamps, bound \in Timestamps :
          /\ probe.entry # None =>
                IF probe.order = "Asc" THEN entry >= probe.entry ELSE entry <= probe.entry
          /\ LET record(r, fresh) ==
                     probe' = [probe EXCEPT !.node = r.node, !.entry = entry,
                                            !.calls = @ + 1,
                                            !.result = Returned(r),
                                            !.stateless = Returned(fresh)]
             IN  record(IndexedEventFilter_search(probe.node, entry, probe.order, bound),
                        IndexedEventFilter_search(probe.original, entry, probe.order, bound))
    /\ UNCHANGED <<instances, spans, events, equery, eiter, eout, epc,
                   squery, siter, sout, spc>>
    /\ UNCHANGED ioVars

NextCursor == InsertEvent \/ BuildForCalls \/ SearchCall

SpecCursor == InitEvent /\ [][NextCursor]_vars

EventIterPlain(query) ==
    LET start == IF query.previous # None /\ query.order = "Asc"
                 THEN SaturatingAdd1(query.previous) ELSE query.start
        end == IF query.previous # None /\ query.order = "Desc"
               THEN NewPred(query.previous) ELSE query.end
        make(trimmed) ==
            EventIter(trimmed.node, query.order,
                      IF query.order = "Asc" THEN start ELSE end,
                      IF query.order = "Asc" THEN end ELSE start)
    IN  make(IndexedEventFilter_trim_to_timeframe(
                 IndexedEventFilter_build(EventFilterOf(query.filter)), start, end))

\* the query's iterator was built and its run has ended
EventBuiltRunEnded ==
    /\ EventRunEnded
    /\ eiter # NoEventIter
    /\ EventFilterValid(equery.filter)
    /\ EventFilterKnown(equery.filter)

\* C30: the sequence of keys a query yields with the plan optimized is the
\* sequence it yields over the same plan left in build order.
C30_OptimizeKeepsResults ==
    EventBuiltRunEnded
    => LET same(plain) ==
               /\ plain.out = eout
               /\ plain.status = "done" <=> epc = "done"
       IN  same(EventRun(EventIterPlain(equery), <<>>))

\* the same statement for stores that stay off the two extreme keys
C30_Interior ==
    (TimestampMIN \notin DOMAIN events /\ TimestampMAX \notin DOMAIN events)
    => C30_OptimizeKeepsResults

\* a run that ended after yielding a key, over a plan whose children
\* optimize had put into another order
C30_Reordered ==
    /\ epc = "done"
    /\ eout # <<>>
    /\ eiter # NoEventIter
    /\ EventFilterValid(equery.filter)
    /\ EventFilterKnown(equery.filter)
    /\ LET moved(plain) == optimize(plain.filter) # plain.filter
       IN  moved(EventIterPlain(equery))

\* whenever both runs end, they have yielded the same sequence
C30_CompletedRuns ==
    (EventBuiltRunEnded /\ epc = "done")
    => LET same(plain) == plain.status = "done" => plain.out = eout
       IN  same(EventRun(EventIterPlain(equery), <<>>))

(***************************************************************************)
(* C31  validate and from_predicate accept the same predicates.            *)
(***************************************************************************)
\* the answer of the other of the two calls on the probed predicate
OtherPredicateCall ==
    IF probe.op = "validate" THEN FromPredicate(probe.entity, probe.predicate)
    ELSE Validate(probe.entity, probe.predicate)

\* C31: for every entity kind and every predicate, validate is Ok exactly
\* when from_predicate is Ok, and when both fail they fail with the same
\* InputError.
C31_ValidateAgreesWithLowering ==
    ProbeIsPredicateCall
    => LET agrees(other) ==
               /\ probe.result.ok <=> other.ok
               /\ ~probe.result.ok => probe.result.err = other.err
       IN  agrees(OtherPredicateCall)

\* the same statement for everything but an operator on a span's instance
C31_ExceptSpanInstance ==
    (ProbeIsPredicateCall
        /\ ~(probe.entity = "span" /\ probe.predicate.property = "instance"
             /\ probe.predicate.property_kind # "Attribute"
             /\ probe.predicate.value_operator # "None"))
    => C31_ValidateAgreesWithLowering

(***************************************************************************)
(* C32  What validate returns.                                             *)
(***************************************************************************)
\* C32: a successful validate returns the predicate with property,
\* value_operator and value unchanged and property_kind set to a kind (never
\* None); validating the returned predicate returns it unchanged; a failed
\* validate returns only the error.
C32_ValidateFrame ==
    /\ probe.op = "validate" =>
          IF probe.result.ok
          THEN /\ probe.result.val.property = probe.predicate.property
               /\ probe.result.val.value_operator = probe.predicate.value_operator
               /\ probe.result.val.value = probe.predicate.value
               /\ probe.result.val.property_kind \in {"Inherent", "Attribute"}
               /\ probe.predicate.property_kind # "None" =>
                      probe.result.val.property_kind = probe.predicate.property_kind
               /\ DOMAIN probe.result.val = DOMAIN probe.predicate
          ELSE probe.result.val = <<>> /\ probe.result.err # "None"
    /\ probe.op = "validate_again" =>
          probe.result.ok /\ probe.result.val = probe.predicate

\* a span predicate given without a kind came back Inherent, and came back
\* the same from the second validate
C32_ResolvedThenSame ==
    /\ probe.op = "validate_again"
    /\ probe.entity = "span"
    /\ probe.given.property_kind = "None"
    /\ probe.given.property = "duration"
    /\ probe.predicate.property_kind = "Inherent"
    /\ probe.result.val = probe.predicate

(***************************************************************************)
(* C33  Every next() ends, with a key or with None.                        *)
(***************************************************************************)
\* the event iterator was built from a predicate list that is not empty
EventIterBuilt ==
    /\ eiter # NoEventIter
    /\ EventFilterValid(equery.filter)
    /\ EventFilterKnown(equery.filter)

\* C33: every call of next() on an event iterator returns, with a key or
\* with None, for every stored key set and both orders: Desc iteration that
\* reaches key 1 and Asc iteration that reaches the maximum key end with
\* None, the extreme key yielded at most once.
C33_NextTerminates ==
    EventIterBuilt => epc \notin {"panic", "hang"} /\ NoDuplicates(eout)

\* the same statement for stores that stay off the two extreme keys
C33_Interior ==
    (TimestampMIN \notin DOMAIN events /\ TimestampMAX \notin DOMAIN events)
    => C33_NextTerminates

\* the same statement for the span iterator
C33_SpanNextTerminates ==
    (siter # NoSpanIter /\ squery.filter # <<>>)
    => spc \notin {"panic", "hang"} /\ NoDuplicates(sout)

(***************************************************************************)
(* C34  The empty predicate list.                                          *)
(***************************************************************************)
\* the iterator of the query's window over the plan build(None) = Single(all)
EventIterNone(query) ==
    LET make(trimmed) ==
            EventIter(trimmed.node, query.order,
                      IF query.order = "Asc" THEN query.start ELSE query.end,
                      IF query.order = "Asc" THEN query.end ELSE query.start)
    IN  make(IndexedEventFilter_trim_to_timeframe(IndexedEventFilter_build_none,
                                                  query.start, query.end))

\* an event query with an empty predicate list and no previous cursor is running
EmptyFilterQuery ==
    /\ epc \in {"iter", "done", "panic", "hang"}
    /\ equery.filter = <<>>
    /\ equery.previous = None

\* C34: an event query with an empty predicate list does not fail and yields
\* every event in the window, exactly like the plan build(None) = Single(all).
C34_EmptyFilterUnfiltered ==
    EmptyFilterQuery
    => /\ epc \notin {"panic", "hang"}
       /\ epc = "done" =>
             /\ SeqToSet(eout) = EventsInWindow
             /\ LET same(none) == none.out = eout
                IN  same(EventRun(EventIterNone(equery), <<>>))

\* what the code does instead: the query yields nothing and ends in a panic
C34_EmptyFilterPanics ==
    EmptyFilterQuery => eout = <<>> /\ epc \in {"iter", "panic"}

\* the plan build(None) yields every event in the window on stores that stay
\* off the two extreme keys
C34_BuildNoneUnfiltered ==
    (EmptyFilterQuery /\ TimestampMIN \notin DOMAIN events
        /\ TimestampMAX \notin DOMAIN events)
    => LET all(none) ==
               /\ none.status = "done"
               /\ SeqToSet(none.out) = EventsInWindow
               /\ NoDuplicates(none.out)
       IN  all(EventRun(EventIterNone(equery), <<>>))

\* a span query with an empty predicate list does not fail, off the extreme
\* keys
C34_SpanEmptyFilterRuns ==
    (siter # NoSpanIter /\ squery.filter = <<>> /\ squery.previous = None
        /\ TimestampMIN \notin DOMAIN spans /\ TimestampMAX \notin DOMAIN spans)
    => spc \notin {"panic", "hang"}

\* and, off the extreme keys, yields the spans of the window (a span closed
\* exactly at the start of the window is left out, as for every span query)
C34_SpanEmptyFilterYield ==
    (spc = "done" /\ squery.filter = <<>> /\ squery.previous = None
        /\ TimestampMIN \notin DOMAIN spans /\ TimestampMAX \notin DOMAIN spans)
    => SeqToSet(sout) =
          {k \in DOMAIN spans :
              /\ k <= squery.end
              /\ \/ spans[k].closed_at = None
                 \/ spans[k].closed_at > squery.start
                 \/ k >= squery.start}

(***************************************************************************)
(* C35  size_hint of the event iterator.                                   *)
(***************************************************************************)
\* Option<usize>
NoneUsize == [some |-> FALSE, val |-> 0]
SomeUsize(n) == [some |-> TRUE, val |-> n]

\* merge(a, b, usize::min) and merge(a, b, Add::add)
merge_min(a, b) ==
    IF a.some /\ b.some THEN SomeUsize(Min(a.val, b.val))
    ELSE IF a.some THEN a
    ELSE IF b.some THEN b
    ELSE NoneUsize

merge_add(a, b) ==
    IF a.some /\ b.some THEN SomeUsize(a.val + b.val)
    ELSE IF a.some THEN a
    ELSE IF b.some THEN b
    ELSE NoneUsize

\* the folds of the And arm and of the Or arm over the children's hints
RECURSIVE FoldMinUpper(_, _)
FoldMinUpper(hints, max) ==
    IF hints = <<>> THEN max
    ELSE FoldMinUpper(Tail(hints), merge_min(max, Head(hints).upper))

RECURSIVE FoldOrHint(_, _)
FoldOrHint(hints, acc) ==
    IF hints = <<>> THEN acc
    ELSE FoldOrHint(Tail(hints),
                    [lower |-> Max(acc.lower, Head(hints).lower),
                     upper |-> merge_add(acc.upper, Head(hints).upper)])

\* IndexedEventFilter::size_hint: [lower, upper]
RECURSIVE IndexedEventFilter_size_hint(_)
IndexedEventFilter_size_hint(node) ==
    IF node.type = "Single"
    THEN IF node.filter.type # "None"
         THEN [lower |-> 0, upper |-> SomeUsize(Len(node.entries))]
         ELSE [lower |-> Len(node.entries), upper |-> SomeUsize(Len(node.entries))]
    ELSE IF Len(node.children) = 0 THEN [lower |-> 0, upper |-> SomeUsize(0)]
    ELSE IF Len(node.children) = 1 THEN IndexedEventFilter_size_hint(node.children[1])
    ELSE LET hints == [i \in 1..Len(node.children) |->
                          IndexedEventFilter_size_hint(node.children[i])]
         IN  IF node.type = "And"
             THEN [lower |-> 0, upper |-> FoldMinUpper(hints, NoneUsize)]
             ELSE FoldOrHint(hints, [lower |-> 0, upper |-> NoneUsize])

\* IndexedEventFilterIterator::size_hint
IndexedEventFilterIterator_size_hint(iter) == IndexedEventFilter_size_hint(iter.filter)

\* the event iterator is built on a plan and has not failed
EventIterRunning ==
    /\ EventIterBuilt
    /\ eiter.filter.type # "Panic"
    /\ epc \in {"iter", "done"}

\* C35: after any number of next() calls the lower bound of size_hint is at
\* most, and the upper bound (when present) at least, the number of keys that
\* further next() calls will yield.
C35_SizeHintBounds ==
    EventIterRunning
    => LET bounds(hint, rest) ==
               /\ hint.lower <= Len(rest.out)
               /\ hint.upper.some => Len(rest.out) <= hint.upper.val
       IN  bounds(IndexedEventFilterIterator_size_hint(eiter), EventRun(eiter, <<>>))

\* the same on stores that stay off the two extreme keys
C35_Interior ==
    (TimestampMIN \notin DOMAIN events /\ TimestampMAX \notin DOMAIN events)
    => C35_SizeHintBounds

\* what the code keeps, off the extreme keys: the upper bound, the lower bound
\* before the first next(), and afterwards a lower bound that may count the key
\* yielded last
C35_LowerCountsLastYielded ==
    (EventIterRunning /\ TimestampMIN \notin DOMAIN events
        /\ TimestampMAX \notin DOMAIN events)
    => LET bounds(hint, rest) ==
               /\ rest.status = "done"
               /\ hint.upper.some /\ Len(rest.out) <= hint.upper.val
               /\ hint.lower <= Len(rest.out) + (IF eout = <<>> THEN 0 ELSE 1)
       IN  bounds(IndexedEventFilterIterator_size_hint(eiter), EventRun(eiter, <<>>))

(***************************************************************************)
(* C36  ingress.rs: IngressState and Ingress::status.                      *)
(***************************************************************************)
MaxStatusCalls == 4
MaxAccepted == 2

\* std::io::Error values the listener thread can end with: bind errors and
\* accept errors, each with the text its Display writes
BindErrors ==
    {[kind |-> "AddrInUse", text |-> <<"i", "n", " ", "u", "s", "e">>],
     [kind |-> "PermissionDenied", text |-> <<"d", "e", "n", "i", "e", "d">>]}
AcceptErrors ==
    {[kind |-> "ConnectionAborted", text |-> <<"a", "b", "o", "r", "t", "e", "d">>]}
NoIoError == [kind |-> "", text |-> <<>>]

\* format!("{err}")
IoError_to_string(err) == err.text

Binds == {<<":", "1">>, <<":", "2">>}

\* Option<String>
NoneString == [some |-> FALSE, val |-> <<>>]
SomeString(text) == [some |-> TRUE, val |-> text]

\* format!("listening on {}", bind) and format!("not listening on {}", bind)
ListeningOn(bind) ==
    <<"l", "i", "s", "t", "e", "n", "i", "n", "g", " ", "o", "n", " ">> \o bind
NotListeningOn(bind) == <<"n", "o", "t", " ">> \o ListeningOn(bind)

\* JoinHandle::is_finished of the listener thread
is_finished(ingress) == ingress.thread.pc = "finished"

\* a check_state that leaves the state as it is
IngressState_check_state_never(ingress) == ingress

\* IngressState::check_state: a Listening state whose handle is present and
\* finished takes the handle, joins it and becomes ListeningFailure(err)
IngressState_check_state(ingress) ==
    IF ingress.state = "Listening" /\ ingress.handle = "Some" /\ is_finished(ingress)
    THEN [ingress EXCEPT !.handle = "None",
                         !.joins = @ + 1,
                         !.state = "ListeningFailure",
                         !.error = ingress.thread.result]
    ELSE ingress

\* IngressState::check_error
IngressState_check_error(ingress) ==
    IF ingress.state = "Listening" THEN [some |-> FALSE, val |-> NoIoError]
    ELSE [some |-> TRUE, val |-> ingress.error]

\* Ingress::start(bind, engine)
Ingress_start(bind) ==
    [bind |-> bind, state |-> "Listening", handle |-> "Some", error |-> NoIoError,
     thread |-> [pc |-> "bind", accepted |-> 0, result |-> NoIoError],
     joins |-> 0, reports |-> <<>>]

\* Ingress::status: [ingress, msg, err]
Ingress_status(ingress) ==
    LET report(checked, error) ==
            IF error.some
            THEN [ingress |-> checked, msg |-> NotListeningOn(checked.bind),
                  err |-> SomeString(IoError_to_string(error.val))]
            ELSE [ingress |-> checked, msg |-> ListeningOn(checked.bind),
                  err |-> NoneString]
        check(checked) == report(checked, IngressState_check_error(checked))
    IN  check(IngressState_check_state(ingress))

InitStatus ==
    /\ QueryIdle
    /\ probe = NoProbe
    /\ storage = EmptyStorage
    /\ scall = NoCall
    /\ conn = NoConn
    /\ calls = <<>>
    /\ live = NoLive
    /\ listener \in {Ingress_start(bind) : bind \in Binds}

StatusUnchanged ==
    /\ UNCHANGED queryVars
    /\ UNCHANGED <<storage, scall, conn, calls, live>>

\* TcpListener::bind(&bind) succeeds
ThreadBind ==
    /\ listener.thread.pc = "bind"
    /\ listener' = [listener EXCEPT !.thread.pc = "accept"]
    /\ StatusUnchanged

\* TcpListener::bind(&bind) fails: the thread returns the error
ThreadBindFails ==
    /\ listener.thread.pc = "bind"
    /\ \E err \in BindErrors :
          listener' = [listener EXCEPT !.thread.pc = "finished", !.thread.result = err]
    /\ StatusUnchanged

\* listener.accept() succeeds: the connection's task is spawned and the loop goes on
ThreadAccept ==
    /\ listener.thread.pc = "accept"
    /\ listener.thread.accepted < MaxAccepted
    /\ listener' = [listener EXCEPT !.thread.accepted = @ + 1]
    /\ StatusUnchanged

\* listener.accept() fails: the thread returns the error
ThreadAcceptFails ==
    /\ listener.thread.pc = "accept"
    /\ \E err \in AcceptErrors :
          listener' = [listener EXCEPT !.thread.pc = "finished", !.thread.result = err]
    /\ StatusUnchanged

\* a call of Ingress::status; the report is kept with whether the thread had
\* finished when the call was made
Status ==
    /\ Len(listener.reports) < MaxStatusCalls
    /\ LET record(r) ==
               [r.ingress EXCEPT !.reports =
                    Append(@, [msg |-> r.msg, err |-> r.err,
                               finished |-> is_finished(listener)])]
       IN  listener' = record(Ingress_status(listener))
    /\ StatusUnchanged

NextStatus ==
    \/ ThreadBind
    \/ ThreadBindFails
    \/ ThreadAccept
    \/ ThreadAcceptFails
    \/ Status

SpecStatus == InitStatus /\ [][NextStatus]_vars

IngressStarted == listener # NoIngress

\* every report so far is the one the claim gives for the thread's state at
\* the call, a reported failure is repeated by every later report, and the
\* handle has been joined at most once
StatusReportsRight ==
    IngressStarted
    => /\ \A i \in 1..Len(listener.reports) :
             LET r == listener.reports[i]
             IN  /\ ~r.finished => /\ r.msg = ListeningOn(listener.bind)
                                   /\ r.err = NoneString
                 /\ r.finished => /\ r.msg = NotListeningOn(listener.bind)
                                  /\ r.err = SomeString(listener.thread.result.text)
                                  /\ listener.thread.result \in BindErrors \cup AcceptErrors
                 /\ \A j \in (i + 1)..Len(listener.reports) :
                       r.err.some => /\ listener.reports[j].msg = r.msg
                                     /\ listener.reports[j].err = r.err
       /\ listener.joins <= 1
       /\ listener.joins = 1 <=> listener.state = "ListeningFailure"
       /\ listener.state = "Listening" => listener.handle = "Some"

\* the failure state is absorbing
FailureAbsorbing ==
    (IngressStarted /\ listener.state = "ListeningFailure")
    => /\ listener'.state = "ListeningFailure"
       /\ listener'.error = listener.error
       /\ listener'.joins = listener.joins

OrderByKey_descending(store, table) ==
    LET keys == Reverse(SortedSeq(DOMAIN store[table]))
    IN  [i \in 1..Len(keys) |-> store[table][keys[i]]]

\* "SELECT * FROM table ORDER BY key": the rows of the table in key order
OrderByKey(store, table) ==
    LET keys == SortedSeq(DOMAIN store[table])
    IN  [i \in 1..Len(keys) |-> store[table][keys[i]]]

\* get_all_*: query_map with *_from_row over the ordered rows, collected
FileStorage_get_all_instances(store) ==
    LET rows == OrderByKey(store, "instances")
    IN  Outcome(store, "all", [i \in 1..Len(rows) |-> instance_from_row(rows[i])])

FileStorage_get_all_spans(store) ==
    LET rows == OrderByKey(store, "spans")
    IN  Outcome(store, "all", [i \in 1..Len(rows) |-> span_from_row(rows[i])])

FileStorage_get_all_span_events(store) ==
    LET rows == OrderByKey(store, "span_events")
    IN  Outcome(store, "all", [i \in 1..Len(rows) |-> span_event_from_row(rows[i])])

FileStorage_get_all_events(store) ==
    LET rows == OrderByKey(store, "events")
    IN  Outcome(store, "all", [i \in 1..Len(rows) |-> event_from_row(rows[i])])

GetAllInstances ==
    StorageCall("get_all", "instances", None, <<>>, FileStorage_get_all_instances(storage))

GetAllSpans ==
    StorageCall("get_all", "spans", None, <<>>, FileStorage_get_all_spans(storage))

GetAllSpanEvents ==
    StorageCall("get_all", "span_events", None, <<>>,
                FileStorage_get_all_span_events(storage))

GetAllEvents ==
    StorageCall("get_all", "events", None, <<>>, FileStorage_get_all_events(storage))

NextScan ==
    \/ GetInstance
    \/ GetSpan
    \/ GetSpanEvent
    \/ GetEvent
    \/ InsertInstance
    \/ InsertSpan
    \/ InsertSpanEvent
    \/ InsertStoredEvent
    \/ UpdateInstanceDisconnected
    \/ UpdateSpanClosed
    \/ UpdateSpanFields
    \/ GetAllInstances
    \/ GetAllSpans
    \/ GetAllSpanEvents
    \/ GetAllEvents

SpecScan == InitStorage /\ [][NextScan]_vars

\* get_X(at) and get_all_X() of a table
GetOf(store, table, at) ==
    CASE table = "instances" -> FileStorage_get_instance(store, at)
      [] table = "spans" -> FileStorage_get_span(store, at)
      [] table = "span_events" -> FileStorage_get_span_event(store, at)
      [] table = "events" -> FileStorage_get_event(store, at)

GetAllOf(store, table) ==
    CASE table = "instances" -> FileStorage_get_all_instances(store)
      [] table = "spans" -> FileStorage_get_all_spans(store)
      [] table = "span_events" -> FileStorage_get_all_span_events(store)
      [] table = "events" -> FileStorage_get_all_events(store)

\* the key of a record of a table
KeyOf(table, record) ==
    CASE table = "instances" -> record.connected_at
      [] table = "spans" -> record.created_at
      [] table = "span_events" -> record.timestamp
      [] table = "events" -> record.timestamp

\* all is a scan of the table: every stored record exactly once, in strictly
\* ascending key order, each equal to what the point lookup returns
IsScan(all, store, table) ==
    /\ \A i \in 1..(Len(all) - 1) : KeyOf(table, all[i]) < KeyOf(table, all[i + 1])
    /\ {KeyOf(table, all[i]) : i \in 1..Len(all)} = DOMAIN store[table]
    /\ \A k \in DOMAIN store[table] :
          Cardinality({i \in 1..Len(all) : KeyOf(table, all[i]) = k}) = 1
    /\ \A i \in 1..Len(all) :
          all[i] = GetOf(store, table, KeyOf(table, all[i])).val

\* the scan of the table holds the record under the key, once
ScanHolds(all, table, record) ==
    Cardinality({i \in 1..Len(all) : all[i] = record}) = 1

C37_KindsAndOptions ==
    /\ scall.op = "insert"
    /\ scall.status = "ok"
    /\ scall.table = "span_events"
    /\ scall.arg.kind.type = "exit"
    /\ FileStorage_get_span_event(storage, scall.at).val = scall.arg
    /\ \E k \in DOMAIN storage.spans :
          FileStorage_get_span(storage, k).val.parent_key # None

====
